---- MODULE Spec2Model ----
(***************************************************************************)
(* A model of the sitemap crawlers of d3val14/scraper:                      *)
(*   scrapercloud.py, shopify-scrapper/shopifyscrap.py  (script crawlers:  *)
(*   one sequential loop) and fpfc/spiders/furniturepick_spider.py (a      *)
(*   Scrapy spider: callbacks run on responses, in any order).             *)
(*                                                                         *)
(* An XML document is the sequence of its <sitemap> and <url> elements in  *)
(* document order, each with the text of its <loc> child (NoText when the  *)
(* child is missing or empty).  Element names are compared after the       *)
(* namespace is stripped, as the parsers do.  A URL is a tuple: a sitemap  *)
(* URL <<"sm", i, j>>, a page URL <<segment, n>>, where the segment is the *)
(* one path segment the product filters look at.                           *)
(***************************************************************************)
EXTENDS Integers, Sequences, FiniteSets, TLC

\* ------------------------------------------------------------------ bounds
MaxIndexLen == 3    \* elements of a sitemap index / Sitemap: lines of robots.txt
MaxOffset == 4      \* SITEMAP_OFFSET ranges over 0..MaxOffset
MaxCount == 2       \* MAX_SITEMAPS ranges over 0..MaxCount
MaxCap == 2         \* MAX_URLS_PER_SITEMAP ranges over 0..MaxCap
MaxLeafLen == 2     \* elements of a leaf sitemap
MaxVariants == 1    \* variants of an extracted product
MaxUrlLen == 4      \* pieces of an image URL
MaxId == 2          \* product_id values of the merged tables
MaxRows == 2        \* rows of a CSV file to merge
MaxCalls == 4       \* URLs of the input file of scraper.py

\* ------------------------------------------------------------ the programs
Progs == {"scrapercloud", "shopifyscrap", "spider"}
Scripts == {"scrapercloud", "shopifyscrap"}

VARIABLES
  prog,                  \* which crawler runs
  CURR_URL,              \* TRUE iff the base URL is configured
  SITEMAP_OFFSET, MAX_SITEMAPS, MAX_URLS_PER_SITEMAP,
  pc,                    \* position of the run
  exitCode,              \* -1 while running, then the process's exit status
  indexDoc,              \* body of the sitemap index (spider: robots.txt)
  sitemap_urls,          \* scripts: the slice; spider: self.sitemap_urls
  idx,                   \* scripts: leaf sitemaps of the slice started so far
  fetched,               \* sitemap URLs requested from the transport, in order
  leafDoc,               \* body of the leaf sitemap parsed last
  urls,                  \* scripts: the leaf's URL list after the cap
  ui,                    \* scripts: URLs of the list gone through so far
  handed,                \* page URLs of that leaf handed on (process_product
                         \* calls; spider: product_urls)
  seen,                  \* seen_urls
  csv,                   \* lines of the output file
  csv0,                  \* lines the output file held before the run
  pending,               \* spider: requests scheduled and not yet answered
  call,                  \* scripts: the last process_product invocation
  invoked,               \* scripts: URLs process_product was invoked with
  get,                   \* one call of session.get: its loop and its log
  img,                   \* normalize_image: its argument and what it returned
  merge,                 \* merge_results.py: one merge_csv call
  scrape,                \* scraper.py: the scrape_product calls of a run
  chunk,                 \* bbb.py: the row range of one chunk
  pool,                  \* bbb.py: the worker threads and the shared stats
  http,                  \* bbb.py: one http_get call
  captcha                \* solvecaptcha.py: one solve_recaptcha_audio call

vars == <<prog, CURR_URL, SITEMAP_OFFSET, MAX_SITEMAPS, MAX_URLS_PER_SITEMAP,
          pc, exitCode, indexDoc, sitemap_urls, idx, fetched, leafDoc, urls,
          ui, handed, seen, csv, csv0, pending, call, invoked, get, img,
          merge, scrape, chunk, pool, http, captcha>>

\* The state of the programs that are no crawler.
others == <<merge, scrape, chunk, pool, http, captcha>>
\* The state of the crawlers.
crawl == <<exitCode, indexDoc, sitemap_urls, idx, fetched, leafDoc, urls, ui,
           handed, seen, csv, pending, call, invoked, get, img>>

config == <<prog, CURR_URL, SITEMAP_OFFSET, MAX_SITEMAPS, MAX_URLS_PER_SITEMAP, csv0>>

\* ------------------------------------------------------------- documents
NoText == <<>>
Malformed == <<[tag |-> "malformed", loc |-> NoText]>>  \* a body that is not XML
None == <<[tag |-> "none", loc |-> NoText]>>            \* the transport gave up
Tags == {"sitemap", "url"}

SitemapURL(i) == <<"sm", i, 0>>
ChildURL(parent, j) == <<parent[1], parent[2], j>>
CommonURL(i) == <<"common", i, 0>>

PageURLs == {<<"/products/", 1>>, <<"/products/", 2>>, <<"/Item/", 3>>, <<"/pages/", 4>>}

\* Index documents: the element at position i names sitemap URL i, or nothing.
IndexDocsOfLen(n) ==
  { [i \in 1..n |-> [tag |-> t[i], loc |-> IF h[i] THEN SitemapURL(i) ELSE NoText]] :
      t \in [1..n -> Tags], h \in [1..n -> BOOLEAN] }
IndexDocs == UNION { IndexDocsOfLen(n) : n \in 0..MaxIndexLen }

\* Leaf documents: any element may hold any page URL, or no text.
LeafEntries == [tag : Tags, loc : PageURLs \cup {NoText}]
LeafDocsOfLen(n) == [1..n -> LeafEntries]
LeafDocs == UNION { LeafDocsOfLen(n) : n \in 0..MaxLeafLen }

\* ------------------------------------------------------------- sequences
Min(a, b) == IF a < b THEN a ELSE b
Max(a, b) == IF a > b THEN a ELSE b

\* Python's s[a:b] for 0 <= a, 0 <= b (0-based, end exclusive).
PySlice(s, a, b) == SubSeq(s, a + 1, Min(b, Len(s)))

RECURSIVE LocsOf(_, _)
\* the <loc> texts of the elements of doc whose tag is in tags, in order
LocsOf(doc, tags) ==
  IF doc = <<>> THEN <<>>
  ELSE LET e == Head(doc)
       IN (IF e.tag \in tags /\ e.loc # NoText THEN <<e.loc>> ELSE <<>>)
          \o LocsOf(Tail(doc), tags)

Range(s) == { s[i] : i \in DOMAIN s }
\* A leaf document with one product page and the empty one: what the leaves
\* hold in the specification that varies the index.
FewLeafDocs == { <<>>, <<[tag |-> "url", loc |-> <<"/products/", 1>>]>> }
\* An index of one leaf sitemap: the index of the specification that varies
\* the leaves.
FewIndexDocs == { <<[tag |-> "sitemap", loc |-> SitemapURL(1)]>> }
\* What a sitemap listed by robots.txt may be for the spider when the index
\* is varied: an index of two sitemaps (or a leaf document).
SpiderIndexDocs ==
  { <<[tag |-> "sitemap", loc |-> SitemapURL(1)], [tag |-> "sitemap", loc |-> SitemapURL(2)]>> }

\* ------------------------------------------------------------ output file
\* A line of the file: the header, or a row with the page URL, the number of
\* the variant and the product-level fields (named by the strategy that gave
\* the product; "-" where the crawler writes none).
Header == [kind |-> "header", url |-> <<>>, variant |-> 0, product |-> "-"]
Row(u, v) == [kind |-> "row", url |-> u, variant |-> v, product |-> "-"]
OldRow == [kind |-> "row", url |-> <<"/old/", 0>>, variant |-> 0, product |-> "-"]
\* Faulty variant of OpenCsv: the file is opened and no header written.
OpenCsvEmpty == <<>>
\* The scripts' output file once opened: open(OUTPUT_CSV, 'w') truncates it
\* and the header is written at once.
OpenCsv == <<Header>>
\* init_csv of the spider: the header is written unless the file exists.
InitCsv(old) == IF old = <<>> THEN <<Header>> ELSE old
\* The variant rows process_product writes for a product of k variants.
VariantRows(u, k) == [v \in 1..k |-> Row(u, v)]

\* ===================================================== scrapercloud.py ==
\* main, lines 354-366: the <loc> of the <sitemap> elements; when that list
\* is empty, every <loc> of the document.
ParseIndexCloud(doc) ==
  LET sm == LocsOf(doc, {"sitemap"})
  IN IF sm # <<>> THEN sm ELSE LocsOf(doc, Tags)

\* parse_sitemap: the <loc> of the <url> elements; when that list is empty,
\* every <loc>; nothing for an unparsable body.
ParseSitemapCloud(doc) ==
  IF doc = Malformed THEN <<>>
  ELSE LET u == LocsOf(doc, {"url"})
       IN IF u # <<>> THEN u ELSE LocsOf(doc, Tags)

\* main, lines 375-379
PartitionCloud(l, offset, count) ==
  IF count > 0 THEN PySlice(l, offset, offset + count)
  ELSE PySlice(l, offset, Len(l))

\* ===================================================== shopifyscrap.py ==
\* parse_sitemap: every <loc> of the document; nothing for an unparsable body
ParseSitemapShopify(doc) ==
  IF doc = Malformed THEN <<>> ELSE LocsOf(doc, Tags)

\* main, lines 231-233
PartitionShopify(l, offset, count) ==
  LET rest == PySlice(l, offset, Len(l))
  IN IF count # 0 THEN PySlice(rest, 0, count) ELSE rest

\* ======================================================= both scripts ==
ParseIndex(p, doc) ==
  IF p = "scrapercloud" THEN ParseIndexCloud(doc) ELSE ParseSitemapShopify(doc)

\* Faulty variant of ParseSitemap: a body that is not XML yields a URL.
ParseSitemapPartial(p, doc) ==
  IF doc = Malformed THEN << <<"/products/", 1>> >>
  ELSE IF p = "scrapercloud" THEN ParseSitemapCloud(doc) ELSE ParseSitemapShopify(doc)
ParseSitemap(p, doc) ==
  IF p = "scrapercloud" THEN ParseSitemapCloud(doc) ELSE ParseSitemapShopify(doc)

\* Faulty variants of Partition: the offset taken as 1-based; the end of the
\* slice taken as inclusive; an offset past the end clamped to the last entry.
PartitionFromOne(p, l, offset, count) == PartitionCloud(l, offset + 1, count)
PartitionInclusiveEnd(p, l, offset, count) ==
  IF count > 0 THEN PySlice(l, offset, offset + count + 1)
  ELSE PySlice(l, offset, Len(l))
PartitionClamped(p, l, offset, count) ==
  PartitionCloud(l, Max(0, Min(offset, Len(l) - 1)), count)

Partition(p, l, offset, count) ==
  IF p = "scrapercloud" THEN PartitionCloud(l, offset, count)
  ELSE PartitionShopify(l, offset, count)

\* urls[:MAX_URLS_PER_SITEMAP] when the cap is set
CapUrls(l, cap) == IF cap > 0 THEN PySlice(l, 0, cap) ELSE l

\* Faulty variant of IsProductPage: the filter lets every URL through.
IsAnyPage(u) == TRUE

\* '/products/' in url
IsProductPage(u) == u[1] = "/products/"

\* The sitemap index is loaded, parsed and sliced, and the output file opened
\* with its header; or the run exits with status 1.
\* Faulty variant of IndexFatal: the run goes on whatever the index fetch gave.
IndexFatalNever(p, body) == FALSE
\* sys.exit(1) before the output file is opened: no index body; scrapercloud
\* also when the body does not parse
IndexFatal(p, body) ==
  \/ body = None
  \/ p = "scrapercloud" /\ body = Malformed

LoadIndex(docs) ==
  /\ prog \in Scripts
  /\ pc = "start"
  /\ \E resp \in docs \cup {None, Malformed} :
       LET body == IF CURR_URL THEN resp ELSE None
       IN IF IndexFatal(prog, body)
          THEN /\ pc' = "exit"
               /\ exitCode' = 1
               /\ UNCHANGED <<indexDoc, sitemap_urls, csv>>
          ELSE /\ pc' = "loop"
               /\ indexDoc' = body
               /\ sitemap_urls' = Partition(prog, ParseIndex(prog, body),
                                            SITEMAP_OFFSET, MAX_SITEMAPS)
               /\ csv' = OpenCsv
               /\ UNCHANGED exitCode
  /\ UNCHANGED <<config, others, img, get, call, invoked, idx, fetched, leafDoc, urls, ui, handed, seen, pending>>

\* The next leaf sitemap of the slice is requested; a failed fetch skips it.
LoadLeaf(docs) ==
  /\ prog \in Scripts
  /\ pc = "loop"
  /\ idx < Len(sitemap_urls)
  /\ idx' = idx + 1
  /\ fetched' = Append(fetched, sitemap_urls[idx + 1])
  /\ \E resp \in docs \cup {None, Malformed} :
       IF resp = None
       THEN UNCHANGED <<pc, leafDoc, urls, ui, handed>>
       ELSE /\ pc' = "pages"
            /\ leafDoc' = resp
            /\ urls' = CapUrls(ParseSitemap(prog, resp), MAX_URLS_PER_SITEMAP)
            /\ ui' = 0
            /\ handed' = <<>>
  /\ UNCHANGED <<config, others, img, get, call, invoked, exitCode, indexDoc, sitemap_urls, seen, csv, pending>>

\* ------------------------------------------------------ process_product
\* What the site holds for a product URL: the answer of the JSON endpoint
\* (<url>.json) as get_json returns it, and the HTML page as get returns it.
\* A product object is the strategy it comes from and its 'variants' list
\* (empty also when the key is missing).  A variant is TRUE when its row can
\* be built and FALSE when building it raises (the entry is not an object;
\* scrapercloud: its title is null, so .strip() has no receiver).
NoProduct == [src |-> "none", variants |-> <<>>]
Product(src, vs) == [src |-> src, variants |-> vs]
RECURSIVE GoodVariants(_)
\* k variants whose rows can be built
GoodVariants(k) == IF k = 0 THEN <<>> ELSE Append(GoodVariants(k - 1), TRUE)
\* The lists of at most n variants, told apart by their length and by whether
\* the last entry is one whose row cannot be built.
VariantLists(n) ==
  { GoodVariants(k) : k \in 0..n } \cup
  { Append(GoodVariants(k - 1), FALSE) : k \in 1..n }

\* get_json: None (the fetch failed or the body is not JSON), an object
\* without the key 'product', or an object with it.
JsonNone == [kind |-> "none", product |-> NoProduct]
JsonOther == [kind |-> "other", product |-> NoProduct]
JsonProduct(vs) == [kind |-> "product", product |-> Product("json", vs)]
JsonAnswers(n) == {JsonNone, JsonOther} \cup { JsonProduct(vs) : vs \in VariantLists(n) }

\* The HTML page: not obtained, or a page with what its scripts hold: the
\* object of the first script pattern that matches and parses (NoProduct when
\* none does) and the first JSON-LD block of @type Product (NoProduct when
\* there is none), which both crawlers turn into a product of one variant.
\* The script object has one variant or none; longer lists come from the
\* JSON endpoint, and the same loop writes their rows.
HtmlNone == [kind |-> "none", script |-> NoProduct, ld |-> NoProduct]
LdProduct == Product("ld", <<TRUE>>)
HtmlAnswers ==
  {HtmlNone} \cup
  { [kind |-> "html", script |-> sc, ld |-> ld] :
      sc \in {NoProduct} \cup { Product("script", GoodVariants(k)) : k \in 0..1 },
      ld \in {NoProduct, LdProduct} }

Pages(n) == { [json |-> j, html |-> h] : j \in JsonAnswers(n), h \in HtmlAnswers }
NoPage == [json |-> JsonNone, html |-> HtmlNone]
\* The pages of the crawl specifications: the JSON endpoint gives a product
\* of k well-formed variants.
FewPages == { [json |-> JsonProduct(GoodVariants(k)), html |-> HtmlNone] : k \in 0..MaxVariants }

\* Faulty variant of AlreadySeen: the seen set is never consulted.
NeverSeen(u, s) == FALSE
\* product_url in seen_urls
AlreadySeen(u, s) == u \in s

\* Faulty variant of MarkSeen: the URL is not recorded.
MarkSeenNever(u, s) == s
\* seen_urls.add(product_url)
MarkSeen(u, s) == s \cup {u}

\* Faulty variant of JsonHit: the JSON endpoint's answer is never accepted.
JsonHitNever(json) == FALSE
\* not (not product_data or 'product' not in product_data), after get_json
JsonHit(json) == json.kind = "product"

\* Faulty variant of ExtractJsonFromScript: an object without variants is
\* passed over in favour of the JSON-LD block.
ExtractSkippingEmpty(html) ==
  IF html.script.variants # <<>> THEN html.script ELSE html.ld
\* extract_json_from_script: the first pattern match that parses is returned
\* as it is; the JSON-LD blocks are read only when no pattern gave an object.
ExtractJsonFromScript(html) ==
  IF html.script # NoProduct THEN html.script ELSE html.ld

\* The strategies extract_json_from_script runs on a page.
ScriptStrategies(html) ==
  IF html.script # NoProduct THEN <<"script">> ELSE <<"script", "ld">>

\* Faulty variant of RowsBuilt: a product without variants gets one row.
RowsBuiltOrBlank(vs) == IF vs = <<>> THEN 1 ELSE Len(vs)
RECURSIVE RowsBuilt(_)
\* for variant in product['variants']: writerow(...) -- the rows written
\* before the loop ends or building a row raises
RowsBuilt(vs) ==
  IF vs = <<>> \/ ~Head(vs) THEN 0 ELSE 1 + RowsBuilt(Tail(vs))

\* The rows of the first n variants of product p of page u.
WriteRows(u, p, n) == [v \in 1..n |-> [VariantRows(u, n)[v] EXCEPT !.product = p.src]]

NoCall ==
  [url |-> <<>>, page |-> NoPage, skipped |-> FALSE, requests |-> <<>>,
   strategies |-> <<>>, product |-> NoProduct, written |-> 0, raised |-> FALSE]

\* process_product(u, writer, seen) on a site that holds page for u: what the
\* invocation does.  requests are the fetches it makes, strategies the
\* extraction strategies it runs, product the object it ends up with, written
\* the rows it writes, raised whether it ends in an exception.
ProcessProduct(u, page, seenSet) ==
  IF AlreadySeen(u, seenSet)
  THEN [NoCall EXCEPT !.url = u, !.page = page, !.skipped = TRUE]
  ELSE LET hit == JsonHit(page.json)
           gotHtml == ~hit /\ page.html.kind = "html"
           product == IF hit THEN page.json.product
                      ELSE IF gotHtml THEN ExtractJsonFromScript(page.html)
                      ELSE NoProduct
           n == RowsBuilt(product.variants)
       IN [url |-> u, page |-> page, skipped |-> FALSE,
           requests |-> IF hit THEN <<"json">> ELSE <<"json", "html">>,
           strategies |-> <<"json">> \o (IF gotHtml THEN ScriptStrategies(page.html) ELSE <<>>),
           product |-> product,
           written |-> n,
           raised |-> n < Len(product.variants)]

\* The effect of one invocation on the run: the seen set, the file, and the
\* position (an exception is caught nowhere: the run ends with status 1).
Invoke(u, page) ==
  LET c == ProcessProduct(u, page, seen)
  IN /\ call' = c
     /\ invoked' = invoked \cup {u}
     /\ seen' = IF c.skipped THEN seen ELSE MarkSeen(u, seen)
     /\ csv' = csv \o WriteRows(u, c.product, c.written)
     /\ IF c.raised
        THEN pc' = "crashed" /\ exitCode' = 1
        ELSE UNCHANGED <<pc, exitCode>>

\* Faulty variant of NextUrl: the list is walked from its end.
NextUrlBackwards(l, i) == l[Len(l) - i]
\* for url in urls: the URL taken after i URLs of the list were taken
NextUrl(l, i) == l[i + 1]

\* One URL of the leaf's list: a product page goes to process_product.
ProcessUrl ==
  /\ prog \in Scripts
  /\ pc = "pages"
  /\ ui < Len(urls)
  /\ ui' = ui + 1
  /\ LET u == NextUrl(urls, ui)
     IN IF ~IsProductPage(u)
        THEN UNCHANGED <<handed, seen, csv, call, invoked, pc, exitCode>>
        ELSE /\ handed' = Append(handed, u)
             /\ \E page \in FewPages : Invoke(u, page)
  /\ UNCHANGED <<config, others, img, get, indexDoc, sitemap_urls, idx, fetched,
                 leafDoc, urls, pending>>

\* process_product is invoked with any URL on any page (the calls of a run,
\* whatever the sitemaps list).
CallProcessProduct(us, pages) ==
  /\ prog \in Scripts
  /\ pc = "extract"
  /\ \E u \in us, page \in pages : Invoke(u, page)
  /\ UNCHANGED <<config, others, img, get, indexDoc, sitemap_urls, idx, fetched, leafDoc,
                 urls, ui, handed, pending>>

\* The leaf's list is exhausted: back to the loop over the slice.
EndLeaf ==
  /\ prog \in Scripts
  /\ pc = "pages"
  /\ ui = Len(urls)
  /\ pc' = "loop"
  /\ UNCHANGED <<config, others, img, get, call, invoked, exitCode, indexDoc, sitemap_urls, idx, fetched, leafDoc,
                 urls, ui, handed, seen, csv, pending>>

\* The slice is exhausted: the file is closed and main returns.
Finish ==
  /\ prog \in Scripts
  /\ pc = "loop"
  /\ idx = Len(sitemap_urls)
  /\ pc' = "done"
  /\ exitCode' = 0
  /\ UNCHANGED <<config, others, img, get, call, invoked, indexDoc, sitemap_urls, idx, fetched, leafDoc, urls, ui,
                 handed, seen, csv, pending>>

\* ------------------------------------------------------ shutdown signals
\* Neither script installs a signal handler.  SIGINT becomes a
\* KeyboardInterrupt, which no 'except Exception' catches: it unwinds main
\* through the with block, which flushes and closes the file.  SIGTERM ends
\* the process at once: what the file holds is what the 8192-byte buffer of
\* the file object had already handed over, a prefix of the written text that
\* may end inside a line.
CutLine(line) == [kind |-> "partial", url |-> line.url, variant |-> line.variant,
                  product |-> line.product]
RECURSIVE Prefixes(_)
Prefixes(f) ==
  IF f = <<>> THEN {<<>>}
  ELSE LET front == SubSeq(f, 1, Len(f) - 1)
       IN {f} \cup Prefixes(front)
\* The file after the process was killed: whole lines up to some point, and
\* possibly a part of the line after them.
OnDisk(f) ==
  Prefixes(f) \cup
  { Append(SubSeq(f, 1, n - 1), CutLine(f[n])) : n \in 1..Len(f) }

Interrupt ==
  /\ prog \in Scripts
  /\ pc \in {"loop", "pages"}
  /\ pc' = "interrupted"
  /\ exitCode' = 130
  /\ UNCHANGED <<config, others, img, get, call, invoked, indexDoc, sitemap_urls, idx, fetched, leafDoc,
                 urls, ui, handed, seen, csv, pending>>

Terminate ==
  /\ prog \in Scripts
  /\ pc \in {"loop", "pages"}
  /\ pc' = "killed"
  /\ exitCode' = 143
  /\ csv' \in OnDisk(csv)
  /\ UNCHANGED <<config, others, img, get, call, invoked, indexDoc, sitemap_urls, idx, fetched, leafDoc,
                 urls, ui, handed, seen, pending>>

\* ============================================ furniturepick_spider.py ==
\* The selector queries are modelled by what they ask for: the elements named
\* sitemap, url and loc, with or without the sitemap namespace.  Requests are
\* answered in any order; a request is logged in fetched when it is yielded.
NumCommonSitemaps == 6
Keywords == {"/product/", "/item/", "/p/", "/products/", "/shop/"}
\* str.lower on the path segment of a URL
Lower(seg) == IF seg = "/Item/" THEN "/item/" ELSE seg
\* any(keyword in loc.lower() for keyword in [...])
IsProductLoc(u) == Lower(u[1]) \in Keywords

Request(u, cb) == [url |-> u, callback |-> cb]
RobotsURL == <<"robots", 0, 0>>
RobotsResponses == [status : {200, 404}, lines : 0..MaxIndexLen]

\* parse_robots, lines 84-111: the Sitemap: lines of a 200 response, else the
\* six common locations
RobotsSitemaps(resp) ==
  LET found == IF resp.status = 200 THEN [i \in 1..resp.lines |-> SitemapURL(i)]
               ELSE <<>>
  IN IF found = <<>> THEN [i \in 1..NumCommonSitemaps |-> CommonURL(i)] ELSE found

\* parse_robots, lines 117-122: range(start_idx, end_idx) as positions 1..
SpiderSlice(l, offset, count) ==
  LET end_idx == Min(offset + count, Len(l))
  IN SubSeq(l, offset + 1, end_idx)

RECURSIVE ScanProductUrls(_, _, _)
\* parse_product_sitemap, lines 199-210: the loop over the <url> elements
ScanProductUrls(locs, product_urls, cap) ==
  IF locs = <<>> THEN product_urls
  ELSE IF IsProductLoc(Head(locs))
       THEN LET grown == Append(product_urls, Head(locs))
            IN IF Len(grown) >= cap THEN grown
               ELSE ScanProductUrls(Tail(locs), grown, cap)
       ELSE ScanProductUrls(Tail(locs), product_urls, cap)

SpiderProductUrls(doc, cap) ==
  IF doc = Malformed THEN <<>>
  ELSE ScanProductUrls(LocsOf(doc, {"url"}), <<>>, cap)

RECURSIVE UrlRows(_)
UrlRows(l) == IF l = <<>> THEN <<>> ELSE <<Row(Head(l), 0)>> \o UrlRows(Tail(l))

\* the positions of the <sitemap> elements that have a <loc>, in order
RECURSIVE SitemapPositions(_, _)
SitemapPositions(doc, i) ==
  IF i > Len(doc) THEN <<>>
  ELSE (IF doc[i].tag = "sitemap" /\ doc[i].loc # NoText THEN <<i>> ELSE <<>>)
       \o SitemapPositions(doc, i + 1)

HasSitemapElements(doc) ==
  doc # Malformed /\ \E i \in DOMAIN doc : doc[i].tag = "sitemap"

\* start_requests: robots.txt is requested
StartRequests ==
  /\ prog = "spider"
  /\ pc = "start"
  /\ pc' = "crawl"
  /\ pending' = {Request(RobotsURL, "parse_robots")}
  /\ UNCHANGED <<config, others, img, get, call, invoked, exitCode, indexDoc, sitemap_urls, idx, fetched, leafDoc,
                 urls, ui, handed, seen, csv>>

\* parse_robots: the sitemap list is built and its slice requested
ParseRobots ==
  /\ prog = "spider"
  /\ pc = "crawl"
  /\ Request(RobotsURL, "parse_robots") \in pending
  /\ \E resp \in RobotsResponses :
       LET all == RobotsSitemaps(resp)
           chosen == SpiderSlice(all, SITEMAP_OFFSET, MAX_SITEMAPS)
       IN /\ indexDoc' = resp
          /\ sitemap_urls' = all
          /\ fetched' = fetched \o chosen
          /\ pending' = { Request(chosen[i], "parse_sitemap_index") : i \in DOMAIN chosen }
  /\ UNCHANGED <<config, others, img, get, call, invoked, pc, exitCode, idx, leafDoc, urls, ui, handed, seen, csv>>

\* parse_product_sitemap on a response: the product URLs are appended to the file
ProductSitemapBody(status, doc) ==
  IF status # 200
  THEN UNCHANGED <<leafDoc, handed, csv>>
  ELSE LET product_urls == SpiderProductUrls(doc, MAX_URLS_PER_SITEMAP)
       IN /\ leafDoc' = doc
          /\ handed' = product_urls
          /\ csv' = csv \o UrlRows(product_urls)

\* parse_sitemap_index: the children of an index are requested; any other
\* document is parsed as a product sitemap
ParseSitemapIndex(docs) ==
  /\ prog = "spider"
  /\ pc = "crawl"
  /\ \E req \in pending, status \in {200, 404}, doc \in docs \cup {Malformed} :
       /\ req.callback = "parse_sitemap_index"
       /\ IF status # 200
          THEN /\ pending' = pending \ {req}
               /\ UNCHANGED <<fetched, leafDoc, handed, csv>>
          ELSE IF HasSitemapElements(doc)
          THEN LET pos == SitemapPositions(doc, 1)
                   children == [k \in DOMAIN pos |-> ChildURL(req.url, pos[k])]
               IN /\ fetched' = fetched \o children
                  /\ pending' = (pending \ {req}) \cup
                       { Request(children[k], "parse_product_sitemap") : k \in DOMAIN children }
                  /\ UNCHANGED <<leafDoc, handed, csv>>
          ELSE /\ pending' = pending \ {req}
               /\ ProductSitemapBody(status, doc)
               /\ UNCHANGED fetched
  /\ UNCHANGED <<config, others, img, get, call, invoked, pc, exitCode, indexDoc, sitemap_urls, idx, urls, ui, seen>>

\* parse_product_sitemap as the callback of a child request
ParseProductSitemap(docs) ==
  /\ prog = "spider"
  /\ pc = "crawl"
  /\ \E req \in pending, status \in {200, 404}, doc \in docs \cup {Malformed} :
       /\ req.callback = "parse_product_sitemap"
       /\ pending' = pending \ {req}
       /\ ProductSitemapBody(status, doc)
  /\ UNCHANGED <<config, others, img, get, call, invoked, pc, exitCode, indexDoc, sitemap_urls, idx, fetched, urls,
                 ui, seen>>

\* handle_error: a request that got no response is logged and dropped
HandleError ==
  /\ prog = "spider"
  /\ pc = "crawl"
  /\ \E req \in pending : pending' = pending \ {req}
  /\ UNCHANGED <<config, others, img, get, call, invoked, pc, exitCode, indexDoc, sitemap_urls, idx, fetched, leafDoc,
                 urls, ui, handed, seen, csv>>

\* no request is left: the spider closes
SpiderClosed ==
  /\ prog = "spider"
  /\ pc = "crawl"
  /\ pending = {}
  /\ pc' = "done"
  /\ exitCode' = 0
  /\ UNCHANGED <<config, others, img, get, call, invoked, indexDoc, sitemap_urls, idx, fetched, leafDoc, urls, ui,
                 handed, seen, csv, pending>>

\* ============================================================ transport ==
\* One call of session.get(url, retries).  A request of the underlying HTTP
\* session is answered by a status (0: no response -- a timeout or a
\* connection error), a body and whether the response carries the vendor's
\* headers (server: cloudflare, cf-ray).  Bodies: two XML documents, a JSON
\* text (it does not start with '<'), and a challenge page (it holds
\* 'cloudflare' and 'attention required').  Waits are counted in steps of
\* 1/JitterSteps second.
JitterSteps == 2    \* values of random.uniform(0, 1) told apart
MaxRetries == 6     \* retries ranges over 0..MaxRetries
MaxWait == 30

\* def get(self, url, retries = 5) and SmartSession's retries = 3
DefaultRetries == 5
SmartDefaultRetries == 3

\* Bodies that begin with '<': two sitemaps and an HTML page.
MarkupBodies == {"<xml1>", "<xml2>", "<html>"}
GoodBodies == MarkupBodies \cup {"{json}"}
Response(status, body, cf) == [status |-> status, body |-> body, cf |-> cf]
NoResponse == Response(0, "", FALSE)
\* The answers a request may get.
Responses ==
  {NoResponse, Response(503, "", FALSE), Response(200, "challenge", FALSE),
   Response(200, "<xml1>", TRUE)}
  \cup { Response(200, b, FALSE) : b \in GoodBodies }
\* Those told apart by SmartSession's first request, which looks at the status
\* and the headers.
SmartResponses == Responses \cup {Response(403, "", TRUE)}
\* Those told apart by SmartSession's cloudscraper request.
EscalatedResponses ==
  {NoResponse, Response(503, "", FALSE), Response(200, "<xml1>", FALSE),
   Response(200, "challenge", FALSE)}

RECURSIVE Pow2(_)
Pow2(a) == IF a = 0 THEN 1 ELSE 2 * Pow2(a - 1)

\* Faulty variant of WaitTime: the wait is not capped.
WaitTimeUncapped(attempt, jitter) == Pow2(attempt) * JitterSteps + jitter
\* min(2 ** attempt + random.uniform(0, 1), 30), in steps
WaitTime(attempt, jitter) ==
  Min(Pow2(attempt) * JitterSteps + jitter, MaxWait * JitterSteps)

\* Faulty variant of MoreAttempts: one attempt too many.
MoreAttemptsInclusive(attempt, retries) == attempt <= retries
\* for attempt in range(retries)
MoreAttempts(attempt, retries) == attempt < retries

\* response.raise_for_status() raises, or the request itself did
RaisesForStatus(r) == r.status = 0 \/ r.status >= 400

\* scrapercloud.py, lines 80-104: the response is accepted (status, challenge
\* markers, XML body for a sitemap URL)
PassesCloud(r, xml) ==
  /\ ~RaisesForStatus(r)
  /\ r.body # "challenge"
  /\ xml => r.body \in MarkupBodies

\* shopifyscrap.py, is_cloudflare_response
IsCloudflareResponse(r) ==
  r.cf \/ r.status \in {403, 429} \/ r.body = "challenge"

\* Faulty variant of PassesNormal: the plain session's answer is never accepted.
PassesNormalNever(r) == FALSE
\* shopifyscrap.py, lines 66-72: the plain session's response is returned
PassesNormal(r) == ~RaisesForStatus(r) /\ ~IsCloudflareResponse(r)

\* shopifyscrap.py, lines 77-79: the cloudscraper session's response is returned
PassesEscalated(r) == ~RaisesForStatus(r)

Sent(by, r, waited) == [by |-> by, resp |-> r, waited |-> waited]

NoGet ==
  [session |-> "none", retries |-> 0, xml |-> FALSE, json |-> FALSE,
   prior |-> "none", attempt |-> 0, reqs |-> <<>>,
   waits |-> 0, lastWait |-> 0, result |-> "running", pc |-> "idle"]
\* get is entered: no request made, no wait done
StartGet(session, retries, xml) ==
  [NoGet EXCEPT !.session = session, !.retries = retries, !.xml = xml, !.pc = "loop"]
\* get_json calls get with the default number of retries
StartGetJson(session, retries) ==
  [NoGet EXCEPT !.session = session, !.retries = retries, !.json = TRUE, !.pc = "loop"]
\* get_json: json.loads of the text get returned; None when there is no text
\* or it is not JSON
GetJson(text) == IF text = "{json}" THEN "{json}" ELSE "None"

\* CloudflareBypassSession.get: one turn of the loop
CloudflareAttempt ==
  /\ pc = "transport"
  /\ get.session = "cloudflare"
  /\ get.pc = "loop"
  /\ MoreAttempts(get.attempt, get.retries)
  /\ \E r \in Responses, jitter \in 0..(JitterSteps - 1) :
       LET waited == get.attempt > 0
           g == [get EXCEPT !.reqs = Append(@, Sent("primary", r, waited)),
                            !.waits = IF waited THEN @ + 1 ELSE @,
                            !.lastWait = IF waited THEN WaitTime(get.attempt, jitter) ELSE @]
       IN get' = IF PassesCloud(r, get.xml)
                 THEN [g EXCEPT !.result = r.body, !.pc = "done"]
                 ELSE [g EXCEPT !.attempt = @ + 1]
  /\ UNCHANGED <<config, others, img, pc, exitCode, indexDoc, sitemap_urls, idx, fetched, leafDoc,
                 urls, ui, handed, seen, csv, pending, call, invoked>>

\* SmartSession.get: one turn of the loop -- the plain request and, when it
\* fails, the cloudscraper request at once; the sleep follows when both fail
SmartAttempt ==
  /\ pc = "transport"
  /\ get.session = "smart"
  /\ get.pc = "loop"
  /\ MoreAttempts(get.attempt, get.retries)
  /\ \E r1 \in SmartResponses, r2 \in EscalatedResponses :
       LET first == Sent("primary", r1, get.attempt > 0)
           second == Sent("escalated", r2, FALSE)
       IN get' = IF PassesNormal(r1)
                 THEN [get EXCEPT !.reqs = Append(@, first),
                                  !.result = r1.body, !.pc = "done"]
                 ELSE IF PassesEscalated(r2)
                 THEN [get EXCEPT !.reqs = @ \o <<first, second>>,
                                  !.result = r2.body, !.pc = "done"]
                 ELSE [get EXCEPT !.reqs = @ \o <<first, second>>,
                                  !.waits = @ + 1,
                                  !.lastWait = Pow2(get.attempt) * JitterSteps,
                                  !.attempt = @ + 1]
  /\ UNCHANGED <<config, others, img, pc, exitCode, indexDoc, sitemap_urls, idx, fetched, leafDoc,
                 urls, ui, handed, seen, csv, pending, call, invoked>>

\* the loop is over: return None
GiveUp ==
  /\ pc = "transport"
  /\ get.pc = "loop"
  /\ ~MoreAttempts(get.attempt, get.retries)
  /\ get' = [get EXCEPT !.result = "None", !.pc = "done"]
  /\ UNCHANGED <<config, others, img, pc, exitCode, indexDoc, sitemap_urls, idx, fetched, leafDoc,
                 urls, ui, handed, seen, csv, pending, call, invoked>>

\* The strategy whose answer a finished call returned.
Succeeded(g) ==
  IF g.result = "None" \/ g.reqs = <<>> THEN "none" ELSE g.reqs[Len(g.reqs)].by

\* The caller's next session.get on the same SmartSession: the loop starts
\* over with the plain request, whatever the earlier call did.
GetAgain ==
  /\ pc = "transport"
  /\ get.session = "smart"
  /\ get.pc = "done"
  /\ get.prior = "none"
  /\ Succeeded(get) # "none"
  /\ get' = [StartGet("smart", get.retries, get.xml) EXCEPT
               !.json = get.json, !.prior = Succeeded(get)]
  /\ UNCHANGED <<config, others, img, pc, exitCode, indexDoc, sitemap_urls, idx, fetched, leafDoc,
                 urls, ui, handed, seen, csv, pending, call, invoked>>

\* ------------------------------------------------------- normalize_image
\* A string is the sequence of its pieces: the scheme "https:", the slash,
\* and a run of other characters.  The base URL is CURR_URL, which is read
\* with rstrip('/'): a site root, or a site root and a path.
Pieces == {"https:", "/", "x"}
StringsOfLen(n) == [1..n -> Pieces]
Strings == UNION { StringsOfLen(n) : n \in 0..MaxUrlLen }
BaseURLs == { <<"https:", "/", "/", "x">>, <<"https:", "/", "/", "x", "/", "x">> }

\* str.startswith
StartsWith(s, prefix) ==
  Len(s) >= Len(prefix) /\ SubSeq(s, 1, Len(prefix)) = prefix

RECURSIVE NetLoc(_)
\* urlsplit: the network location runs up to the next slash
NetLoc(s) ==
  IF s = <<>> \/ Head(s) = "/" THEN <<>> ELSE <<Head(s)>> \o NetLoc(Tail(s))

\* Faulty variant of UrlJoin: the path is put after the whole base.
UrlJoinConcat(base, url) == base \o url
\* urllib.parse.urljoin(base, url) for a url that begins with one slash: the
\* scheme and the network location of the base, then the url as the path
\* (the path of the base is dropped); the url itself when the base is empty
\* or has no scheme and network location
UrlJoin(base, url) ==
  IF StartsWith(base, <<"https:", "/", "/">>)
  THEN <<"https:", "/", "/">> \o NetLoc(SubSeq(base, 4, Len(base))) \o url
  ELSE url

NormalizeImage(base, url) ==
  IF url = <<>> THEN <<>>
  ELSE IF StartsWith(url, <<"/", "/">>) THEN <<"https:">> \o url
  ELSE IF StartsWith(url, <<"/">>) THEN UrlJoin(base, url)
  ELSE url

NoImage == [base |-> <<>>, url |-> <<>>, first |-> <<>>, second |-> <<>>, calls |-> 0]

\* normalize_image(url) is called, and then called on what it returned
CallNormalizeImage ==
  /\ pc = "image"
  /\ img.calls < 2
  /\ img' = IF img.calls = 0
            THEN [img EXCEPT !.first = NormalizeImage(img.base, img.url), !.calls = 1]
            ELSE [img EXCEPT !.second = NormalizeImage(img.base, img.first), !.calls = 2]
  /\ UNCHANGED <<config, others, pc, exitCode, indexDoc, sitemap_urls, idx, fetched,
                 leafDoc, urls, ui, handed, seen, csv, pending, call, invoked, get>>

\* ======================================================== other programs ==
\* ------------------------------------------------------ merge_results.py
\* A CSV file is unreadable (pd.read_csv raises), or a table: its columns and
\* its rows.  A row is given by its product_id and its seller (a product
\* table has no seller: "-").  A product_id of 0 stands for the missing value
\* (NaN) that pd.concat puts where a frame has no such column.
Sellers == {"a", "b"}
Keys(table) ==
  [product_id : 1..MaxId, seller : IF table = "sellers" THEN Sellers ELSE {"-"}]
KeysWithoutId(table) ==
  [product_id : {0}, seller : IF table = "sellers" THEN Sellers ELSE {"-"}]
Unreadable == [readable |-> FALSE, cols |-> {}, rows |-> <<>>]
CsvFiles(table) ==
  {Unreadable} \cup
  UNION { { [readable |-> TRUE, cols |-> {"product_id", "seller"}, rows |-> r] :
              r \in [1..n -> Keys(table)] } \cup
          { [readable |-> TRUE, cols |-> {"seller"}, rows |-> r] :
              r \in [1..n -> KeysWithoutId(table)] } : n \in 0..MaxRows }

\* sort_cols of the two calls in main
SortCols(table) ==
  IF table = "sellers" THEN <<"product_id", "seller">> ELSE <<"product_id">>

RECURSIVE Frame(_, _, _)
\* pd.read_csv(f) for file number k: its rows from the j-th on, each tagged
\* with the file and its position in the file
Frame(f, k, j) ==
  IF j > Len(f.rows) THEN <<>>
  ELSE <<[file |-> k, n |-> j, product_id |-> f.rows[j].product_id,
          seller |-> f.rows[j].seller]>> \o Frame(f, k, j + 1)

RECURSIVE ReadAll(_, _)
\* the loop over files: dfs after the files from the k-th on were read; a
\* file that cannot be read is skipped
ReadAll(files, k) ==
  IF k > Len(files) THEN <<>>
  ELSE (IF files[k].readable
        THEN <<[cols |-> files[k].cols, rows |-> Frame(files[k], k, 1)]>>
        ELSE <<>>) \o ReadAll(files, k + 1)

RECURSIVE Concat(_)
\* pd.concat(dfs, ignore_index=True): the union of the columns, the rows one
\* frame after the other
Concat(dfs) ==
  IF dfs = <<>> THEN [cols |-> {}, rows |-> <<>>]
  ELSE LET rest == Concat(Tail(dfs))
       IN [cols |-> Head(dfs).cols \cup rest.cols, rows |-> Head(dfs).rows \o rest.rows]

\* the first row goes before the second in the order of sort_values: column
\* by column, ascending, missing values last
RECURSIVE Before(_, _, _)
Before(a, b, cols) ==
  IF cols = <<>> THEN FALSE
  ELSE LET c == Head(cols)
           x == IF c = "product_id" THEN a.product_id ELSE IF a.seller = "a" THEN 1 ELSE 2
           y == IF c = "product_id" THEN b.product_id ELSE IF b.seller = "a" THEN 1 ELSE 2
       IN IF x = y THEN Before(a, b, Tail(cols))
          ELSE IF c = "product_id" /\ x = 0 THEN FALSE
          ELSE IF c = "product_id" /\ y = 0 THEN TRUE
          ELSE x < y

RECURSIVE InsertRow(_, _, _)
InsertRow(row, sorted, cols) ==
  IF sorted = <<>> THEN <<row>>
  ELSE IF Before(row, Head(sorted), cols) THEN <<row>> \o sorted
  ELSE <<Head(sorted)>> \o InsertRow(row, Tail(sorted), cols)

\* Faulty variant of SortValues: the rows stay as they were concatenated.
SortValuesNot(rows, cols) == rows
RECURSIVE SortValues(_, _)
\* merged.sort_values(sort_cols, inplace=True); rows with equal keys keep
\* the order of the concatenation
SortValues(rows, cols) ==
  IF rows = <<>> THEN <<>>
  ELSE LET n == Len(rows)
       IN InsertRow(rows[n], SortValues(SubSeq(rows, 1, n - 1), cols), cols)

\* the sort columns that merged.columns does not hold
MissingCols(merged, cols) == { i \in DOMAIN cols : cols[i] \notin merged.cols }

NoMerge ==
  [pc |-> "idle", table |-> "none", files |-> <<>>, out |-> <<>>,
   written |-> FALSE, raised |-> FALSE]

\* merge_csv(files, sort_cols, output_prefix)
MergeCsv ==
  /\ pc = "merge"
  /\ merge.pc = "called"
  /\ LET dfs == ReadAll(merge.files, 1)
         merged == Concat(dfs)
         cols == SortCols(merge.table)
     IN merge' =
          IF merge.files = <<>> \/ dfs = <<>>
          THEN [merge EXCEPT !.pc = "returned"]
          ELSE IF MissingCols(merged, cols) # {}
          THEN [merge EXCEPT !.pc = "returned", !.raised = TRUE]
          ELSE [merge EXCEPT !.pc = "returned", !.written = TRUE,
                             !.out = SortValues(merged.rows, cols)]
  /\ UNCHANGED <<config, crawl, pc, scrape, chunk, pool, http, captcha>>

\* -------------------------------------------------------------- scraper.py
\* What SESSION.get(url, timeout=30) gives for a URL of the input file: an
\* exception, a 403, another status that is not ok, a page without the
\* product-name block (soup.find(...) is None, so .find raises), a product page.
PageAnswers == {"raises", "403", "500", "no_name", "product"}

\* global_product_id = 1
FirstProductId == 1

\* Faulty variant of ScrapeProduct: the counter advances on every call.
ScrapeProductCounting(answer, id) ==
  IF answer = "product"
  THEN [rows |-> <<[product_id |-> id, main_product_id |-> id]>>, id |-> id + 1]
  ELSE [rows |-> <<>>, id |-> id + 1]
\* scrape_product(url) with global_product_id = id: the list returned and
\* the counter afterwards
ScrapeProduct(answer, id) ==
  IF answer = "product"
  THEN [rows |-> <<[product_id |-> id, main_product_id |-> id]>>, id |-> id + 1]
  ELSE [rows |-> <<>>, id |-> id]

NoScrape ==
  [pc |-> "idle", global_product_id |-> FirstProductId, log |-> <<>>,
   returned |-> <<>>, rows |-> <<>>]

\* main: one turn of the loop over the input URLs -- scrape_product is called
\* and the rows it returns are written
ScrapeUrl ==
  /\ pc = "scrape"
  /\ Len(scrape.log) < MaxCalls
  /\ \E answer \in PageAnswers :
       LET r == ScrapeProduct(answer, scrape.global_product_id)
       IN scrape' = [scrape EXCEPT !.global_product_id = r.id,
                                   !.log = Append(@, answer),
                                   !.returned = r.rows,
                                   !.rows = @ \o r.rows]
  /\ UNCHANGED <<config, crawl, pc, merge, chunk, pool, http, captcha>>

\* ---- ovs-bbb/bbb.py: the rows one chunk takes ----

MaxValid == 6    \* most valid rows of the input file
MaxChunks == 5   \* most chunks of a run (--total-chunks)

\* chunk_size = len(df_valid) // total_chunks, at least 1.
ChunkSize(n, total_chunks) ==
  IF n \div total_chunks = 0 THEN 1 ELSE n \div total_chunks

\* start_idx of a chunk, clipped to the number of rows.
StartIdx(chunk_id, n, total_chunks) ==
  IF total_chunks > 1
  THEN Min((chunk_id - 1) * ChunkSize(n, total_chunks), n)
  ELSE 0

\* Faulty variant of EndIdx: the last chunk takes chunk_size rows as well.
EndIdxNoRemainder(chunk_id, n, total_chunks) ==
  IF total_chunks > 1
  THEN Min((chunk_id - 1) * ChunkSize(n, total_chunks)
             + ChunkSize(n, total_chunks), n)
  ELSE n

\* end_idx of a chunk: chunk_size rows after the unclipped start, the last
\* chunk up to the end of the rows; clipped to the number of rows.
EndIdx(chunk_id, n, total_chunks) ==
  IF total_chunks > 1
  THEN Min(IF chunk_id < total_chunks
           THEN (chunk_id - 1) * ChunkSize(n, total_chunks)
                  + ChunkSize(n, total_chunks)
           ELSE n, n)
  ELSE n

\* No chunk has run.
NoChunk == [pc |-> "idle", n |-> 0, total_chunks |-> 0, ranges |-> {}]

\* One run of main with --chunk-id chunk_id over the same input file: the
\* rows [start_idx, end_idx) it takes.
RunChunk ==
  /\ pc = "chunk"
  /\ \E chunk_id \in 1..chunk.total_chunks :
       /\ \A r \in chunk.ranges : r.chunk_id # chunk_id
       /\ chunk' = [chunk EXCEPT !.ranges = @ \cup
            {[chunk_id |-> chunk_id,
              start_idx |-> StartIdx(chunk_id, chunk.n, chunk.total_chunks),
              end_idx |-> EndIdx(chunk_id, chunk.n, chunk.total_chunks)]}]
  /\ UNCHANGED <<config, crawl, pc, merge, scrape, pool, http, captcha>>

\* ---- ovs-bbb/bbb.py: the worker threads and the shared statistics ----

MaxSubmitted == 3   \* most variant IDs submitted to the pool
MaxWorkers == 2     \* largest --max-workers

\* What the API has for a variant ID: nothing (fetch_json returns None), a
\* document extract_bbb_data makes nothing of, or a variant.
VariantKinds == {"no_data", "no_info", "ok"}

\* --request-delay is any float: zero or more, or negative.
RequestDelays == {"nonneg", "negative"}

\* The counter process_variant_data increments for a variant ID, up to the
\* sleep.
CounterOf(kind) ==
  CASE kind = "empty" -> "skipped"
    [] kind = "non_numeric" -> "invalid"
    [] kind = "no_data" -> "errors"
    [] kind = "no_info" -> "errors"
    [] kind = "ok" -> "processed"

\* The sequences of length at most n over a set, as tuples.
RECURSIVE TuplesUpTo(_, _)
TuplesUpTo(S, n) ==
  IF n = 0 THEN {<<>>}
  ELSE LET shorter == TuplesUpTo(S, n - 1)
       IN shorter \cup {Append(t, x) : t \in shorter, x \in S}

NoStats == [processed |-> 0, errors |-> 0, skipped |-> 0, invalid |-> 0]

\* A submitted call that no worker thread has taken.
Queued(kind) == [pc |-> "queued", kind |-> kind, key |-> "none", tmp |-> 0,
                 incs |-> 0, result |-> "none"]

\* executor.submit for one variant ID after the other.
RECURSIVE Submit(_)
Submit(kinds) ==
  IF kinds = <<>> THEN <<>>
  ELSE Append(Submit(SubSeq(kinds, 1, Len(kinds) - 1)),
              Queued(kinds[Len(kinds)]))

\* The pool does not exist.
NoPool == [pc |-> "idle", max_workers |-> 0, request_delay |-> "nonneg",
           stats |-> NoStats, calls |-> <<>>]

\* The calls a worker thread is executing.
Executing == {i \in DOMAIN pool.calls :
              pool.calls[i].pc \in {"load", "store", "sleep"}}

\* A free worker thread takes the next call and runs it up to its first
\* access to stats.
Begin ==
  /\ pc = "pool"
  /\ pool.pc = "run"
  /\ Cardinality(Executing) < pool.max_workers
  /\ \E i \in DOMAIN pool.calls :
       /\ pool.calls[i].pc = "queued"
       /\ \A j \in 1..(i - 1) : pool.calls[j].pc # "queued"
       /\ pool' = [pool EXCEPT !.calls[i].pc = "load",
                               !.calls[i].key = CounterOf(pool.calls[i].kind)]
  /\ UNCHANGED <<config, crawl, pc, merge, scrape, chunk, http, captcha>>

\* stats[key] += 1, first half: the thread reads the counter.
Load ==
  /\ pc = "pool"
  /\ \E i \in DOMAIN pool.calls :
       /\ pool.calls[i].pc = "load"
       /\ pool' = [pool EXCEPT !.calls[i].pc = "store",
                               !.calls[i].tmp = pool.stats[pool.calls[i].key]]
  /\ UNCHANGED <<config, crawl, pc, merge, scrape, chunk, http, captcha>>

\* The call after its increment: return None (nothing found), return the
\* error row (in the exception handler), or go on to the sleep.
AfterStore(c) ==
  IF c.key = "processed"
  THEN [c EXCEPT !.pc = "sleep", !.incs = @ + 1]
  ELSE [c EXCEPT !.pc = "done", !.incs = @ + 1,
                 !.result = IF c.kind = "ok" THEN "error_row" ELSE "None"]

\* stats[key] += 1, second half: the thread writes the value it read plus 1.
Store ==
  /\ pc = "pool"
  /\ \E i \in DOMAIN pool.calls :
       /\ pool.calls[i].pc = "store"
       /\ pool' = [pool EXCEPT
            !.stats[pool.calls[i].key] = pool.calls[i].tmp + 1,
            !.calls[i] = AfterStore(pool.calls[i])]
  /\ UNCHANGED <<config, crawl, pc, merge, scrape, chunk, http, captcha>>

\* time.sleep(request_delay): raises ValueError for a negative delay, which
\* the handler of the call catches and counts as an error.
Sleep ==
  /\ pc = "pool"
  /\ \E i \in DOMAIN pool.calls :
       /\ pool.calls[i].pc = "sleep"
       /\ pool' = [pool EXCEPT !.calls[i] =
            IF pool.request_delay = "negative"
            THEN [@ EXCEPT !.pc = "load", !.key = "errors"]
            ELSE [@ EXCEPT !.pc = "done", !.result = "row"]]
  /\ UNCHANGED <<config, crawl, pc, merge, scrape, chunk, http, captcha>>

\* The with block ends once every call has finished.
Shutdown ==
  /\ pc = "pool"
  /\ pool.pc = "run"
  /\ \A i \in DOMAIN pool.calls : pool.calls[i].pc = "done"
  /\ pool' = [pool EXCEPT !.pc = "finished"]
  /\ UNCHANGED <<config, crawl, pc, merge, scrape, chunk, http, captcha>>

\* ---- ovs-bbb/bbb.py: http_get ----

HttpAttempts == 3   \* for attempt in range(3)

\* What session.get does: a response with a status (403 stands for every
\* status that is not 200, 404, 429 or 5xx), a timeout, another exception.
HttpAnswers == {"200", "404", "429", "500", "403", "timeout", "exception"}

\* Faulty variant of HttpOutcome: a 404 is retried like any other failure.
HttpOutcomeRetry404(answer) ==
  IF answer = "200" THEN "body" ELSE "retry"

\* What http_get does with an answer: return the body, return None, or go
\* on with the next attempt.
HttpOutcome(answer) ==
  CASE answer = "200" -> "body"
    [] answer = "404" -> "None"
    [] OTHER -> "retry"

\* The seconds http_get sleeps after an answer it retries.
HttpSleep(answer) ==
  CASE answer = "429" -> 5
    [] answer = "500" -> 2
    [] answer = "timeout" -> 2
    [] answer = "exception" -> 1
    [] OTHER -> 0

\* No call of http_get.
NoHttp == [pc |-> "idle", attempt |-> 0, log |-> <<>>, slept |-> 0,
           result |-> "none"]

\* One pass of the loop of http_get: the request, what becomes of its
\* answer, the sleep, and the return after the last attempt.
HttpGetAttempt ==
  /\ pc = "http"
  /\ http.pc = "loop"
  /\ \E answer \in HttpAnswers :
       LET o == HttpOutcome(answer)
           log == Append(http.log, answer)
       IN http' =
            IF o = "retry"
            THEN [http EXCEPT
                    !.attempt = @ + 1,
                    !.log = log,
                    !.slept = @ + HttpSleep(answer),
                    !.pc = IF http.attempt + 1 < HttpAttempts
                           THEN "loop" ELSE "done",
                    !.result = IF http.attempt + 1 < HttpAttempts
                               THEN "none" ELSE "None"]
            ELSE [http EXCEPT !.log = log, !.pc = "done", !.result = o]
  /\ UNCHANGED <<config, crawl, pc, merge, scrape, chunk, pool, captcha>>

\* ---- gshopping/solvecaptcha.py: solve_recaptcha_audio ----

MaxText == 3        \* most characters of the recognised text
MaxDownloads == 2   \* max_retries of download_audio_file

\* No call of solve_recaptcha_audio. frame is the browsing context of the
\* driver, events what was done to the page, typed the characters sent to the
\* response box, attempt the passes of the download loop, at the step whose
\* return statement ended the call.
NoCaptcha == [pc |-> "idle", frame |-> "default", events |-> <<>>,
              text |-> 0, typed |-> 0, attempt |-> 0, result |-> "none",
              at |-> "none"]

\* A handler of a step: driver.switch_to.default_content(), return "quit".
Quit(c) == [c EXCEPT !.frame = "default", !.result = "quit", !.at = c.pc,
                     !.pc = "finally"]

\* The outermost handler: return "quit".
Unexpected(c) == [c EXCEPT !.result = "quit", !.at = "unexpected",
                           !.pc = "finally"]

\* return "solved".
Solved(c) == [c EXCEPT !.result = "solved", !.at = c.pc, !.pc = "finally"]

\* Faulty variant of Finally: the caller regains control at once.
FinallyNothing(c) == [c EXCEPT !.pc = "returned"]

\* The finally block: driver.switch_to.default_content().
Finally(c) == [c EXCEPT !.frame = "default", !.pc = "returned"]

\* The iframes of the page are searched for the recaptcha frame.
FindRecaptchaFrame ==
  /\ pc = "captcha"
  /\ captcha.pc = "find_recaptcha"
  /\ \E o \in {"found", "none", "raises"} :
       captcha' = CASE o = "found" -> [captcha EXCEPT !.pc = "switch_recaptcha"]
                    [] o = "none" -> Solved(captcha)
                    [] o = "raises" -> Unexpected(captcha)
  /\ UNCHANGED <<config, crawl, pc, merge, scrape, chunk, pool, http>>

SwitchToRecaptcha ==
  /\ pc = "captcha"
  /\ captcha.pc = "switch_recaptcha"
  /\ \E o \in {"ok", "raises"} :
       captcha' = IF o = "ok"
                  THEN [captcha EXCEPT !.frame = "recaptcha", !.pc = "checkbox"]
                  ELSE Quit(captcha)
  /\ UNCHANGED <<config, crawl, pc, merge, scrape, chunk, pool, http>>

\* The checkbox is clicked, and the driver goes back to the default content
\* to look for the challenge frame.
ClickCheckbox ==
  /\ pc = "captcha"
  /\ captcha.pc = "checkbox"
  /\ \E o \in {"ok", "raises"} :
       captcha' = IF o = "ok"
                  THEN [captcha EXCEPT !.events = Append(@, "checkbox"),
                                       !.frame = "default",
                                       !.pc = "find_challenge"]
                  ELSE Quit(captcha)
  /\ UNCHANGED <<config, crawl, pc, merge, scrape, chunk, pool, http>>

FindChallengeFrame ==
  /\ pc = "captcha"
  /\ captcha.pc = "find_challenge"
  /\ \E o \in {"found", "none", "raises"} :
       captcha' = CASE o = "found" -> [captcha EXCEPT !.pc = "switch_challenge"]
                    [] o = "none" -> Solved(captcha)
                    [] o = "raises" -> Unexpected(captcha)
  /\ UNCHANGED <<config, crawl, pc, merge, scrape, chunk, pool, http>>

SwitchToChallenge ==
  /\ pc = "captcha"
  /\ captcha.pc = "switch_challenge"
  /\ \E o \in {"ok", "raises"} :
       captcha' = IF o = "ok"
                  THEN [captcha EXCEPT !.frame = "challenge",
                                       !.pc = "audio_button"]
                  ELSE Quit(captcha)
  /\ UNCHANGED <<config, crawl, pc, merge, scrape, chunk, pool, http>>

\* The audio button is clicked, by its id or else by its title.
ClickAudioButton ==
  /\ pc = "captcha"
  /\ captcha.pc = "audio_button"
  /\ \E o \in {"ok", "alternative", "raises"} :
       captcha' = IF o = "raises"
                  THEN Quit(captcha)
                  ELSE [captcha EXCEPT !.events = Append(@, "audio_button"),
                                       !.pc = "audio_source"]
  /\ UNCHANGED <<config, crawl, pc, merge, scrape, chunk, pool, http>>

\* get_audio_source returns a URL, a URL of a script, or None.
GetAudioSource ==
  /\ pc = "captcha"
  /\ captcha.pc = "audio_source"
  /\ \E o \in {"url", "js", "none"} :
       captcha' = IF o = "url"
                  THEN [captcha EXCEPT !.pc = "download"]
                  ELSE Quit(captcha)
  /\ UNCHANGED <<config, crawl, pc, merge, scrape, chunk, pool, http>>

\* One pass of the loop of download_audio_file: the download raises (and is
\* retried unless it was the last pass), the file is too small, it converts
\* to WAV, or it does not.
DownloadAudioFile ==
  /\ pc = "captcha"
  /\ captcha.pc = "download"
  /\ \E o \in {"raises", "small", "converted", "unconvertible"} :
       captcha' =
         CASE o = "converted" ->
                [captcha EXCEPT !.attempt = @ + 1,
                                !.events = Append(@, "download"),
                                !.pc = "voicereco"]
           [] o = "raises" /\ captcha.attempt + 1 < MaxDownloads ->
                [captcha EXCEPT !.attempt = @ + 1]
           [] OTHER -> Quit([captcha EXCEPT !.attempt = @ + 1])
  /\ UNCHANGED <<config, crawl, pc, merge, scrape, chunk, pool, http>>

\* voicereco returns a text (recognised or a fallback), an empty text, or
\* raises because speech_recognition cannot be imported.
Voicereco ==
  /\ pc = "captcha"
  /\ captcha.pc = "voicereco"
  /\ \/ \E n \in 1..MaxText :
          captcha' = [captcha EXCEPT !.text = n, !.pc = "response_box"]
     \/ captcha' = Quit(captcha)
     \/ captcha' = Unexpected(captcha)
  /\ UNCHANGED <<config, crawl, pc, merge, scrape, chunk, pool, http>>

\* The response box is awaited and cleared.
FindResponseBox ==
  /\ pc = "captcha"
  /\ captcha.pc = "response_box"
  /\ \E o \in {"ok", "raises"} :
       captcha' = IF o = "ok"
                  THEN [captcha EXCEPT !.pc = "type"]
                  ELSE Quit(captcha)
  /\ UNCHANGED <<config, crawl, pc, merge, scrape, chunk, pool, http>>

\* The text is typed character by character.
TypeCharacter ==
  /\ pc = "captcha"
  /\ captcha.pc = "type"
  /\ captcha.typed < captcha.text
  /\ \E o \in {"ok", "raises"} :
       captcha' = IF o = "ok"
                  THEN [captcha EXCEPT !.typed = @ + 1]
                  ELSE Quit(captcha)
  /\ UNCHANGED <<config, crawl, pc, merge, scrape, chunk, pool, http>>

\* ENTER submits the response, and the driver goes back to the default
\* content.
SubmitResponse ==
  /\ pc = "captcha"
  /\ captcha.pc = "type"
  /\ captcha.typed = captcha.text
  /\ \E o \in {"ok", "raises"} :
       captcha' = IF o = "ok"
                  THEN [captcha EXCEPT !.events = Append(@, "submit"),
                                       !.frame = "default",
                                       !.pc = "verify"]
                  ELSE Quit(captcha)
  /\ UNCHANGED <<config, crawl, pc, merge, scrape, chunk, pool, http>>

\* The verify button is clicked if there is one.
ClickVerify ==
  /\ pc = "captcha"
  /\ captcha.pc = "verify"
  /\ \E o \in {"clicked", "absent"} :
       captcha' = IF o = "clicked"
                  THEN Solved([captcha EXCEPT !.events = Append(@, "verify")])
                  ELSE Solved(captcha)
  /\ UNCHANGED <<config, crawl, pc, merge, scrape, chunk, pool, http>>

\* The finally block runs and the caller regains control.
ReturnToCaller ==
  /\ pc = "captcha"
  /\ captcha.pc = "finally"
  /\ captcha' = Finally(captcha)
  /\ UNCHANGED <<config, crawl, pc, merge, scrape, chunk, pool, http>>


\* None of the crawlers runs.
NoCrawlState ==
  /\ CURR_URL = TRUE
  /\ SITEMAP_OFFSET = 0
  /\ MAX_SITEMAPS = 0
  /\ MAX_URLS_PER_SITEMAP = 0
  /\ csv0 = <<>>
  /\ csv = <<>>
  /\ exitCode = -1
  /\ indexDoc = <<>>
  /\ sitemap_urls = <<>>
  /\ idx = 0
  /\ fetched = <<>>
  /\ leafDoc = <<>>
  /\ urls = <<>>
  /\ ui = 0
  /\ handed = <<>>
  /\ seen = {}
  /\ pending = {}
  /\ call = NoCall
  /\ invoked = {}
  /\ get = NoGet
  /\ img = NoImage

\* None of the other programs runs.
OthersIdle ==
  /\ merge = NoMerge
  /\ scrape = NoScrape
  /\ chunk = NoChunk
  /\ pool = NoPool
  /\ http = NoHttp
  /\ captcha = NoCaptcha

\* ======================================================= specifications ==
\* The output file a spider run may find: none, or one an earlier run left.
OldFiles == { <<>>, <<Header, OldRow>> }

InitWith(offsets, counts, caps) ==
  /\ prog \in Progs
  /\ CURR_URL \in (IF prog = "spider" THEN {TRUE} ELSE BOOLEAN)
  /\ SITEMAP_OFFSET \in offsets
  /\ MAX_SITEMAPS \in counts
  /\ MAX_URLS_PER_SITEMAP \in caps
  /\ csv0 \in (IF prog = "spider" THEN OldFiles ELSE {<<>>})
  /\ csv = IF prog = "spider" THEN InitCsv(csv0) ELSE csv0
  /\ pc = "start"
  /\ exitCode = -1
  /\ indexDoc = <<>>
  /\ sitemap_urls = <<>>
  /\ idx = 0
  /\ fetched = <<>>
  /\ leafDoc = <<>>
  /\ urls = <<>>
  /\ ui = 0
  /\ handed = <<>>
  /\ seen = {}
  /\ pending = {}
  /\ call = NoCall
  /\ invoked = {}
  /\ get = NoGet
  /\ img = NoImage
  /\ OthersIdle

\* What a sitemap listed by robots.txt holds in Spec: an index or a leaf.
SpiderDocs == SpiderIndexDocs \cup FewLeafDocs

\* Spec: every index document, offset and count; few leaf documents.
Init == InitWith(0..MaxOffset, 0..MaxCount, {0})

Next ==
  \/ LoadIndex(IndexDocs)
  \/ LoadLeaf(FewLeafDocs)
  \/ ProcessUrl
  \/ EndLeaf
  \/ Finish
  \/ StartRequests
  \/ ParseRobots
  \/ ParseSitemapIndex(SpiderDocs)
  \/ ParseProductSitemap(FewLeafDocs)
  \/ HandleError
  \/ SpiderClosed

Spec == Init /\ [][Next]_vars

\* SpecLeaf: one leaf sitemap, every leaf document and cap.
InitLeaf == InitWith({0}, {1}, 0..MaxCap)

NextLeaf ==
  \/ LoadIndex(FewIndexDocs)
  \/ LoadLeaf(LeafDocs)
  \/ ProcessUrl
  \/ EndLeaf
  \/ Finish
  \/ StartRequests
  \/ ParseRobots
  \/ ParseSitemapIndex(LeafDocs)
  \/ ParseProductSitemap(FewLeafDocs)
  \/ HandleError
  \/ SpiderClosed

SpecLeaf == InitLeaf /\ [][NextLeaf]_vars

\* The crawl variables of a specification that does not crawl.
NoCrawl ==
  /\ OthersIdle
  /\ CURR_URL = TRUE
  /\ SITEMAP_OFFSET = 0
  /\ MAX_SITEMAPS = 0
  /\ MAX_URLS_PER_SITEMAP = 0
  /\ csv0 = <<>>
  /\ exitCode = -1
  /\ indexDoc = <<>>
  /\ sitemap_urls = <<>>
  /\ idx = 0
  /\ fetched = <<>>
  /\ leafDoc = <<>>
  /\ urls = <<>>
  /\ ui = 0
  /\ handed = <<>>
  /\ seen = {}
  /\ pending = {}
  /\ call = NoCall
  /\ invoked = {}

\* SpecLoop: the crawl loop of the two scripts over an index of two leaf
\* sitemaps that list the product pages in either order, with the signals
\* that may end the run.
LoopIndexDocs ==
  { <<[tag |-> "sitemap", loc |-> SitemapURL(1)], [tag |-> "sitemap", loc |-> SitemapURL(2)]>> }
LoopLeafDocs ==
  { <<[tag |-> "url", loc |-> <<"/products/", 1>>], [tag |-> "url", loc |-> <<"/products/", 2>>]>>,
    <<[tag |-> "url", loc |-> <<"/products/", 2>>], [tag |-> "url", loc |-> <<"/products/", 1>>]>>,
    <<[tag |-> "url", loc |-> <<"/products/", 2>>]>> }

InitLoop ==
  /\ InitWith({0}, {0}, {0})
  /\ prog \in Scripts
  /\ CURR_URL

NextLoop ==
  \/ LoadIndex(LoopIndexDocs)
  \/ LoadLeaf(LoopLeafDocs)
  \/ ProcessUrl
  \/ EndLeaf
  \/ Finish
  \/ Interrupt
  \/ Terminate

SpecLoop == InitLoop /\ [][NextLoop]_vars

\* SpecImage: normalize_image on every string of at most MaxUrlLen pieces.
InitImage ==
  /\ prog \in Scripts
  /\ NoCrawl
  /\ pc = "image"
  /\ csv = OpenCsv
  /\ get = NoGet
  /\ \E b \in BaseURLs, u \in Strings : img = [NoImage EXCEPT !.base = b, !.url = u]

NextImage == CallNormalizeImage

SpecImage == InitImage /\ [][NextImage]_vars

\* SpecMerge: merge_csv on no file, one file or two files of either table.
InitMerge ==
  /\ prog = "merge_results"
  /\ NoCrawlState
  /\ pc = "merge"
  /\ scrape = NoScrape
  /\ chunk = NoChunk
  /\ pool = NoPool
  /\ http = NoHttp
  /\ captcha = NoCaptcha
  /\ \E table \in {"products", "sellers"} :
       \E f1 \in CsvFiles(table), f2 \in CsvFiles(table) :
         \E files \in {<<>>, <<f1>>, <<f1, f2>>} :
           merge = [NoMerge EXCEPT !.pc = "called", !.table = table, !.files = files]

NextMerge == MergeCsv

SpecMerge == InitMerge /\ [][NextMerge]_vars

\* SpecScrape: the loop of scraper.py over at most MaxCalls URLs, every answer.
InitScrape ==
  /\ prog = "scraper"
  /\ NoCrawlState
  /\ pc = "scrape"
  /\ merge = NoMerge
  /\ scrape = [NoScrape EXCEPT !.pc = "loop"]
  /\ chunk = NoChunk
  /\ pool = NoPool
  /\ http = NoHttp
  /\ captcha = NoCaptcha

NextScrape == ScrapeUrl

SpecScrape == InitScrape /\ [][NextScrape]_vars

\* bbb.py run once per chunk id over an input of n valid rows.
InitChunk ==
  /\ prog = "bbb"
  /\ NoCrawlState
  /\ pc = "chunk"
  /\ merge = NoMerge
  /\ scrape = NoScrape
  /\ pool = NoPool
  /\ http = NoHttp
  /\ captcha = NoCaptcha
  /\ \E n \in 1..MaxValid, total_chunks \in 1..MaxChunks :
       chunk = [NoChunk EXCEPT !.pc = "split", !.n = n,
                               !.total_chunks = total_chunks]

NextChunk == RunChunk

SpecChunk == InitChunk /\ [][NextChunk]_vars

\* The variant IDs main can submit: unique and numeric.
Submissions == TuplesUpTo(VariantKinds, MaxSubmitted)

\* bbb.py from the creation of the pool to its shutdown.
InitPool ==
  /\ prog = "bbb"
  /\ NoCrawlState
  /\ pc = "pool"
  /\ merge = NoMerge
  /\ scrape = NoScrape
  /\ chunk = NoChunk
  /\ http = NoHttp
  /\ captcha = NoCaptcha
  /\ \E kinds \in Submissions, w \in 1..MaxWorkers, d \in RequestDelays :
       pool = [pc |-> "run", max_workers |-> w, request_delay |-> d,
               stats |-> NoStats,
               calls |-> Submit(kinds)]

NextPool == Begin \/ Load \/ Store \/ Sleep \/ Shutdown

SpecPool == InitPool /\ [][NextPool]_vars

\* One call of http_get.
InitHttp ==
  /\ prog = "bbb"
  /\ NoCrawlState
  /\ pc = "http"
  /\ merge = NoMerge
  /\ scrape = NoScrape
  /\ chunk = NoChunk
  /\ pool = NoPool
  /\ captcha = NoCaptcha
  /\ http = [NoHttp EXCEPT !.pc = "loop"]

NextHttp == HttpGetAttempt

SpecHttp == InitHttp /\ [][NextHttp]_vars

\* One call of solve_recaptcha_audio, the driver in the default content.
InitCaptcha ==
  /\ prog = "gshopping"
  /\ NoCrawlState
  /\ pc = "captcha"
  /\ merge = NoMerge
  /\ scrape = NoScrape
  /\ chunk = NoChunk
  /\ pool = NoPool
  /\ http = NoHttp
  /\ captcha = [NoCaptcha EXCEPT !.pc = "find_recaptcha"]

NextCaptcha ==
  \/ FindRecaptchaFrame
  \/ SwitchToRecaptcha
  \/ ClickCheckbox
  \/ FindChallengeFrame
  \/ SwitchToChallenge
  \/ ClickAudioButton
  \/ GetAudioSource
  \/ DownloadAudioFile
  \/ Voicereco
  \/ FindResponseBox
  \/ TypeCharacter
  \/ SubmitResponse
  \/ ClickVerify
  \/ ReturnToCaller

SpecCaptcha == InitCaptcha /\ [][NextCaptcha]_vars

\* SpecExtract: a script run has opened its file; process_product is invoked
\* with two product URLs, in any order and any number of times, on every page.
ExtractURLs == { <<"/products/", 1>>, <<"/products/", 2>> }

InitExtract ==
  /\ prog \in Scripts
  /\ NoCrawl
  /\ pc = "extract"
  /\ csv = OpenCsv
  /\ get = NoGet
  /\ img = NoImage

\* The pages of SpecExtract: one variant more than in the crawl, so that a
\* group of rows can break off.
ExtractPages == Pages(MaxVariants + 1)

NextExtract == CallProcessProduct(ExtractURLs, ExtractPages)

SpecExtract == InitExtract /\ [][NextExtract]_vars

\* SpecGet: one call of the session's get, for every retries argument, a
\* sitemap URL or another one, and every sequence of answers.  The loop makes
\* progress: every request is answered or times out, every sleep ends.
InitGet ==
  /\ prog \in Scripts
  /\ NoCrawl
  /\ img = NoImage
  /\ pc = "transport"
  /\ csv = <<>>
  /\ \/ \E xml \in BOOLEAN :
          \/ /\ prog = "scrapercloud"
             /\ \E n \in 0..MaxRetries : get = StartGet("cloudflare", n, xml)
          \/ /\ prog = "shopifyscrap"
             /\ \E n \in 0..(MaxRetries \div 2) : get = StartGet("smart", n, xml)
     \/ /\ prog = "scrapercloud"
        /\ get = StartGetJson("cloudflare", DefaultRetries)
     \/ /\ prog = "shopifyscrap"
        /\ get = StartGetJson("smart", SmartDefaultRetries)

NextGet ==
  \/ CloudflareAttempt
  \/ SmartAttempt
  \/ GiveUp
  \/ GetAgain

SpecGet == InitGet /\ [][NextGet]_vars /\ WF_vars(NextGet)
\* =============================================================== claims ==
\* The list of sitemap URLs the index gave before it was sliced.
FullList == ParseIndex(prog, indexDoc)
\* A script run that has loaded and sliced its index.
Loaded == prog \in Scripts /\ pc \in {"loop", "pages", "done"}
\* The spider has run parse_robots (its list is never empty afterwards).
RobotsParsed == prog = "spider" /\ sitemap_urls # <<>>
\* A script run has gone through the whole URL list of a leaf.
LeafDone == prog \in Scripts /\ pc = "pages" /\ ui = Len(urls)

Take(s, n) == SubSeq(s, 1, Min(n, Len(s)))

RECURSIVE IsSubseq(_, _)
\* s is obtained from t by deleting elements
IsSubseq(s, t) ==
  IF s = <<>> THEN TRUE
  ELSE IF t = <<>> THEN FALSE
  ELSE IF Head(s) = Head(t) THEN IsSubseq(Tail(s), Tail(t))
  ELSE IsSubseq(s, Tail(t))

\* The allow-list of each crawler: '/products/' in the scripts, the five
\* keywords (matched on the lower-cased URL) in the spider.
AllowListed(p, u) ==
  IF p \in Scripts THEN u[1] = "/products/"
  ELSE u[1] \in {"/product/", "/item/", "/Item/", "/p/", "/products/", "/shop/"}

\* The URLs a crawler extracts from a leaf document, before cap and filter.
Extracted(p, doc) ==
  IF p \in Scripts THEN ParseSitemap(p, doc)
  ELSE IF doc = Malformed THEN <<>> ELSE LocsOf(doc, {"url"})

ProductLike(p, l) == LET Test(u) == AllowListed(p, u) IN SelectSeq(l, Test)

\* The positions of the index list a partition (offset, count) stands for:
\* offset+1 .. offset+count (1-based), to the end of the list when count = 0.
SlicePositions(n, offset, count) ==
  { q \in 1..n : q > offset /\ (count = 0 \/ q <= offset + count) }

\* C1: in the script crawlers the partition step keeps
\* max(0, min(count, N - offset)) URLs when count > 0 and max(0, N - offset)
\* when count = 0, and they are the entries offset+1.. of the index list
\* (1-based), in index order.
C1_PartitionSize ==
  Loaded =>
    LET N == Len(FullList)
        kept == IF MAX_SITEMAPS > 0
                THEN Max(0, Min(MAX_SITEMAPS, N - SITEMAP_OFFSET))
                ELSE Max(0, N - SITEMAP_OFFSET)
    IN /\ Len(sitemap_urls) = kept
       /\ \A i \in 1..kept : sitemap_urls[i] = FullList[SITEMAP_OFFSET + i]

C1_Witness ==
  /\ Loaded
  /\ SITEMAP_OFFSET = 1
  /\ MAX_SITEMAPS = 1
  /\ Len(FullList) = 3
  /\ sitemap_urls = <<FullList[2]>>

\* C2: every leaf sitemap a script run requests is an entry of the slice of
\* its partition (positions offset .. offset+count-1, 0-based; to the end of
\* the list when count = 0, the unbounded partition); before the index is
\* loaded, and in a run that exits, none is requested.
C2_OnlySliceRequested ==
  prog \in Scripts =>
    \A i \in DOMAIN fetched :
      /\ Loaded
      /\ \E q \in SlicePositions(Len(FullList), SITEMAP_OFFSET, MAX_SITEMAPS) :
           fetched[i] = FullList[q]

C2_Witness ==
  /\ prog \in Scripts
  /\ pc = "done"
  /\ Len(FullList) = 3
  /\ SITEMAP_OFFSET = 1
  /\ MAX_SITEMAPS = 1
  /\ fetched = <<FullList[2]>>

\* C3: for the index list of a script run and every count c > 0, the slices
\* of the runs with offsets 0, c, 2c, ... are pairwise disjoint sets of index
\* positions whose union is all N positions; the slice of the run at hand is
\* a function of the index list and its own offset and count.
C3_RunsCoverDisjointly ==
  Loaded =>
    LET N == Len(FullList)
        positions == [i \in 1..N |-> i]
        run(k, c) == Range(Partition(prog, positions, k * c, c))
    IN /\ \A c \in 1..MaxCount :
            /\ \A j, k \in 0..N : j # k => run(j, c) \cap run(k, c) = {}
            /\ UNION { run(k, c) : k \in 0..N } = 1..N
       /\ sitemap_urls = Partition(prog, FullList, SITEMAP_OFFSET, MAX_SITEMAPS)

C3_Witness ==
  /\ Loaded
  /\ Len(FullList) = 3
  /\ MAX_SITEMAPS = 2
  /\ SITEMAP_OFFSET = 2
  /\ sitemap_urls = <<FullList[3]>>

C5_SpiderZeroUnbounded ==
  (RobotsParsed /\ MAX_SITEMAPS = 0) =>
    \A q \in SITEMAP_OFFSET + 1 .. Len(sitemap_urls) :
      sitemap_urls[q] \in Range(fetched)

\* The leaf sitemaps a run has requested: every sitemap request of a script,
\* the requests of the spider that parse_product_sitemap answers.
LeafRequests ==
  IF prog \in Scripts THEN Len(fetched)
  ELSE Cardinality({ i \in DOMAIN fetched : fetched[i][3] # 0 })

C7_CapAfterFilter ==
  ((LeafDone \/ prog = "spider") /\ MAX_URLS_PER_SITEMAP > 0) =>
    handed = Take(ProductLike(prog, Extracted(prog, leafDoc)), MAX_URLS_PER_SITEMAP)

\* C8: in the spider a per-leaf cap of 0 is unbounded: every product-like URL
\* of the leaf is collected, and written.
C8_SpiderCapZeroUnbounded ==
  (prog = "spider" /\ MAX_URLS_PER_SITEMAP = 0) =>
    /\ handed = ProductLike(prog, Extracted(prog, leafDoc))
    /\ \A i \in DOMAIN handed : Row(handed[i], 0) \in Range(csv)

C10_SitemapElementsDecide ==
  (Loaded /\ SITEMAP_OFFSET = 0 /\ MAX_SITEMAPS = 0) =>
    sitemap_urls = IF \E i \in DOMAIN indexDoc : indexDoc[i].tag = "sitemap"
                   THEN LocsOf(indexDoc, {"sitemap"})
                   ELSE LocsOf(indexDoc, Tags)

\* ------------------------------------------- process_product (C11..C16)
\* The rows of the file that carry page URL u, in file order.
RowsOfUrl(u) == LET IsOfUrl(l) == l.kind = "row" /\ l.url = u IN SelectSeq(csv, IsOfUrl)
\* The last invocation went past the seen test.
Ran == call.url # <<>> /\ ~call.skipped
\* Every variant the page holds is one whose row can be built.
AllGood(page) == \A v \in DOMAIN page.json.product.variants : page.json.product.variants[v]

\* C11: when the JSON endpoint answers with an object whose 'product' field
\* holds at least one variant, process_product makes no request for the HTML
\* page and runs neither the script-JSON nor the JSON-LD strategy.
C11_JsonEndpointWins ==
  (/\ Ran
   /\ call.page.json.kind = "product"
   /\ Len(call.page.json.product.variants) >= 1)
  => /\ call.requests = <<"json">>
     /\ call.strategies = <<"json">>
     /\ call.product = call.page.json.product

C11_Witness ==
  /\ Ran
  /\ call.page.json.kind = "product"
  /\ Len(call.page.json.product.variants) >= 1
  /\ call.page.html.kind = "html"
  /\ call.page.html.script.variants # <<>>
  /\ call.written >= 1

\* Some strategy, run on the page, would give a product with a variant.
AnyStrategyValid(page) ==
  \/ page.json.product.variants # <<>>
  \/ /\ page.html.kind = "html"
     /\ page.html.script.variants # <<>> \/ page.html.ld # NoProduct

\* The product of the first strategy that matches on the page.
FirstMatch(page) ==
  IF page.json.kind = "product" THEN page.json.product
  ELSE IF page.html.kind # "html" THEN NoProduct
  ELSE IF page.html.script.src = "script" THEN page.html.script
  ELSE page.html.ld

C13_NoVariantsNoRows ==
  (Ran /\ call.product.src # "none" /\ call.product.variants = <<>>)
  => /\ call.written = 0
     /\ ~call.raised
     /\ pc # "crashed"
     /\ RowsOfUrl(call.url) = <<>>

C13_Witness ==
  /\ Ran
  /\ call.product.src = "script"
  /\ call.product.variants = <<>>
  /\ call.page.html.ld # NoProduct

\* C14: process_product invoked again with a URL it was invoked with before
\* writes no row, makes no fetch and raises nothing, so the URL's rows are in
\* the file once: one group, each variant once, from one product.
C14_Idempotent ==
  /\ call.skipped =>
       /\ call.url \in invoked
       /\ call.requests = <<>>
       /\ call.strategies = <<>>
       /\ call.written = 0
       /\ ~call.raised
  /\ \A u \in invoked :
       LET rows == RowsOfUrl(u)
       IN \A i \in DOMAIN rows :
            rows[i].variant = i /\ rows[i].product = rows[1].product

C14_Witness ==
  /\ call.skipped
  /\ Len(RowsOfUrl(call.url)) >= 2
  /\ Cardinality(invoked) = 2

C16_WholeGroups ==
  (Ran /\ call.written >= 1) =>
    LET k == Len(call.product.variants)
    IN RowsOfUrl(call.url) =
         [v \in 1..k |-> [kind |-> "row", url |-> call.url, variant |-> v,
                          product |-> call.product.src]]

ValidAnswer(r, xml) ==
  /\ r.status = 200
  /\ r.body \in GoodBodies
  /\ xml => r.body # "{json}"

C18_Safe ==
  get.session = "cloudflare" =>
    LET n == Len(get.reqs)
    IN /\ n <= get.retries
       /\ \A i \in 1..(n - 1) : ~ValidAnswer(get.reqs[i].resp, get.xml)
       /\ get.pc = "loop" => \A i \in 1..n : ~ValidAnswer(get.reqs[i].resp, get.xml)
       /\ get.pc = "done" =>
            IF n >= 1 /\ ValidAnswer(get.reqs[n].resp, get.xml)
            THEN get.result = get.reqs[n].resp.body
            ELSE get.result = "None" /\ n = get.retries

\* C18: CloudflareBypassSession.get(url, retries = n) terminates, makes at
\* most n requests, returns the body of the first attempt whose answer passes
\* every test, and returns None exactly when all n attempts failed.
C18_GetTerminates == [](C18_Safe) /\ <>(get.pc = "done")

C18_Witness ==
  /\ get.session = "cloudflare"
  /\ get.pc = "done"
  /\ get.retries = 3
  /\ Len(get.reqs) = 3
  /\ get.result = "None"

\* C19: no wait before the first attempt; each later attempt a is preceded by
\* one wait of min(2^a + jitter, 30) seconds with 0 <= jitter < 1, which is
\* at most 30 and at least min(2^a, 30).
C19_Backoff ==
  get.session = "cloudflare" =>
    LET n == Len(get.reqs)
        a == n - 1
    IN /\ get.waits = IF n = 0 THEN 0 ELSE a
       /\ \A i \in 1..n : get.reqs[i].waited <=> i > 1
       /\ n <= 1 => get.lastWait = 0
       /\ n >= 2 =>
            /\ \E jitter \in 0..(JitterSteps - 1) :
                 get.lastWait = Min((2 ^ a) * JitterSteps + jitter, 30 * JitterSteps)
            /\ get.lastWait <= 30 * JitterSteps
            /\ get.lastWait >= Min(2 ^ a, 30) * JitterSteps

C19_Witness ==
  /\ get.session = "cloudflare"
  /\ Len(get.reqs) = 6
  /\ get.lastWait = 30 * JitterSteps
  /\ get.waits = 5

\* C20: when the first request is answered with 503 and the second with a
\* valid body, get makes exactly two requests, the second after the backoff
\* wait, and returns that body as an immediate success would.
C20_RetryAfter503 ==
  (/\ get.pc = "done"
   /\ Len(get.reqs) >= 2
   /\ get.reqs[1].resp.status = 503
   /\ ValidAnswer(get.reqs[2].resp, get.xml))
  => /\ Len(get.reqs) = 2
     /\ get.reqs[2].waited
     /\ get.lastWait > 0
     /\ get.result = get.reqs[2].resp.body

\* A soft block: a block status, an anti-bot vendor header, or a challenge
\* marker in the body.
SoftBlock(r) == r.status \in {403, 429, 503} \/ r.cf \/ r.body = "challenge"

LastResponse(g) == g.reqs[Len(g.reqs)].resp

\* C21: get never returns a soft block as a successful body, whichever
\* strategy obtained it: the answer whose body is returned is not a block.
C21_SoftBlockNotReturned ==
  (get.pc = "done" /\ get.result # "None") => ~SoftBlock(LastResponse(get))

\* A 200 answer that is no block and whose body is not of the expected kind:
\* not a sitemap for a sitemap URL, not JSON for a get_json call.
Unparseable(r, g) ==
  /\ r.status = 200
  /\ ~SoftBlock(r)
  /\ \/ g.xml /\ r.body \notin {"<xml1>", "<xml2>"}
     \/ g.json /\ r.body # "{json}"

\* C22: an answer that does not parse as the expected XML or JSON is retried
\* like a soft block: with two or more attempts allowed, a call whose first
\* answer is such a body makes a second request.
C22_UnparseableRetried ==
  (/\ get.pc = "done"
   /\ get.retries >= 2
   /\ Len(get.reqs) >= 1
   /\ Unparseable(get.reqs[1].resp, get))
  => Len(get.reqs) >= 2

\* The plain request succeeded and its answer is not a block.
PrimaryOk(r) == r.status = 200 /\ ~SoftBlock(r)

\* C23: in SmartSession.get every cloudscraper request directly follows a
\* plain request that failed, and a call whose first plain request succeeds
\* with an answer that is no block makes no other request.
C23_EscalatedAfterPrimary ==
  get.session = "smart" =>
    /\ \A i \in 1..Len(get.reqs) :
         get.reqs[i].by = "escalated" =>
           /\ i > 1
           /\ get.reqs[i - 1].by = "primary"
           /\ ~PrimaryOk(get.reqs[i - 1].resp)
    /\ \A i \in 1..Len(get.reqs) :
         (get.reqs[i].by = "primary" /\ PrimaryOk(get.reqs[i].resp)) =>
           /\ i = Len(get.reqs)
           /\ get.pc = "done"
           /\ get.result = get.reqs[i].resp.body

C23_Witness ==
  /\ get.session = "smart"
  /\ get.pc = "done"
  /\ Len(get.reqs) = 3
  /\ get.reqs[2].by = "escalated"
  /\ get.reqs[3].by = "primary"
  /\ get.result = "<xml2>"

\* C24: after a get call in which the cloudscraper request succeeded, the
\* next get call on the same session sends the cloudscraper request first.
C24_StickyEscalated ==
  (get.session = "smart" /\ get.prior = "escalated" /\ Len(get.reqs) >= 1)
  => get.reqs[1].by = "escalated"

\* C25: a leaf sitemap that cannot be fetched, or whose body is not XML,
\* contributes no page URL; requesting a leaf changes neither the rows
\* already written nor the exit status, and the loop goes on (with the pages
\* of the leaf when there are any, with the next leaf otherwise).
C25_FailedLeafSkipped ==
  /\ [](prog \in Scripts /\ leafDoc = Malformed => urls = <<>>)
  /\ [][(prog \in Scripts /\ idx' = idx + 1) =>
          /\ csv' = csv
          /\ exitCode' = exitCode
          /\ seen' = seen
          /\ \/ pc' = "loop" /\ urls' = urls /\ ui' = ui
             \/ pc' = "pages" /\ ui' = 0]_vars

C25_Witness ==
  /\ prog \in Scripts
  /\ leafDoc = Malformed
  /\ Len(fetched) >= 2
  /\ Len(csv) >= 2
  /\ pc = "done"
  /\ exitCode = 0

\* C26: without a base URL, or when the sitemap index cannot be fetched, the
\* run ends with a non-zero exit status before the output file is opened:
\* the file holds no header and no row, and no leaf is requested.  A file
\* that was opened means the base URL is set and the index was fetched.
C26_AbortBeforeOpen ==
  prog \in Scripts =>
    /\ (~CURR_URL /\ pc # "start") => pc = "exit"
    /\ pc = "exit" => exitCode > 0 /\ csv = <<>> /\ fetched = <<>>
    /\ csv # <<>> => CURR_URL /\ indexDoc # None /\ pc # "exit"

C26_Witness ==
  /\ prog = "shopifyscrap"
  /\ CURR_URL
  /\ pc = "exit"
  /\ exitCode = 1
  /\ csv = <<>>

\* C27: no process_product invocation ends in an exception, whatever the URL
\* and whatever the site answers, and the run is never ended by one.
C27_NoPropagation == ~call.raised /\ pc # "crashed"

\* The run is in its normal course after the step (no signal ended it).
Running == pc' \notin {"interrupted", "killed"}

C30_CleanShutdown ==
  (prog \in Scripts /\ pc \in {"interrupted", "killed"}) =>
    /\ pc = "interrupted"
    /\ csv # <<>>
    /\ csv[1] = Header
    /\ \A i \in 2..Len(csv) : csv[i].kind = "row"

Rooted(u) == Len(u) >= 1 /\ u[1] = "/" /\ (Len(u) = 1 \/ u[2] # "/")
\* The scheme and host of a base URL: "https://x".
SiteRoot(b) == SubSeq(b, 1, 4)

\* What normalize_image returns for a protocol-relative and for an absolute
\* URL, and that a second application changes nothing.
ImageOtherCases ==
  LET u == img.url
  IN /\ img.calls >= 1 =>
          /\ (Len(u) >= 2 /\ u[1] = "/" /\ u[2] = "/") => img.first = <<"https:">> \o u
          /\ (Len(u) >= 1 /\ u[1] = "https:") => img.first = u
     /\ img.calls = 2 => img.second = img.first

\* C29 as stated: '//X' becomes 'https://X', a root-relative '/P' becomes
\* '<base>/P', an absolute URL is unchanged, and normalize_image is
\* idempotent.
C29_ResolvesToBase ==
  /\ ImageOtherCases
  /\ (img.calls >= 1 /\ Rooted(img.url)) => img.first = img.base \o img.url

\* C29, amended: '//X' becomes 'https://X', a root-relative '/P' becomes
\* '<scheme and host of the base>/P' (which is '<base>/P' when the base has
\* no path), an absolute URL is unchanged, and normalize_image is idempotent.
C29_ResolvesToSiteRoot ==
  /\ ImageOtherCases
  /\ (img.calls >= 1 /\ Rooted(img.url)) => img.first = SiteRoot(img.base) \o img.url
  /\ (img.calls >= 1 /\ Rooted(img.url) /\ img.base = SiteRoot(img.base)) =>
       img.first = img.base \o img.url

C29_Witness ==
  /\ img.calls = 2
  /\ img.base = <<"https:", "/", "/", "x", "/", "x">>
  /\ img.url = <<"/", "x", "/", "x">>
  /\ img.first = <<"https:", "/", "/", "x", "/", "x", "/", "x">>
  /\ img.second = img.first

\* The sitemaps a run selects: the slice of the index (scripts), the slice
\* of the robots.txt list (spider).
SliceSize ==
  IF prog \in Scripts THEN Len(sitemap_urls)
  ELSE Len(SpiderSlice(sitemap_urls, SITEMAP_OFFSET, MAX_SITEMAPS))

ReadableRows ==
  { <<k, j>> : k \in { i \in DOMAIN merge.files : merge.files[i].readable },
               j \in 1..MaxRows } \cap
  { <<k, j>> \in (DOMAIN merge.files) \X (1..MaxRows) : j <= Len(merge.files[k].rows) }
SomeReadable == \E k \in DOMAIN merge.files : merge.files[k].readable
\* Every sort column is a column of some readable file.
SortColsPresent ==
  \A i \in DOMAIN SortCols(merge.table) :
    \E k \in DOMAIN merge.files :
      merge.files[k].readable /\ SortCols(merge.table)[i] \in merge.files[k].cols
\* Row a may stand directly before row b: by product_id, then by seller for a
\* seller table, a missing product_id after every value.
InOrder(a, b) ==
  \/ a.product_id # 0 /\ b.product_id # 0 /\ a.product_id < b.product_id
  \/ a.product_id # 0 /\ b.product_id = 0
  \/ /\ a.product_id = b.product_id
     /\ merge.table = "sellers" => (a.seller = b.seller \/ (a.seller = "a" /\ b.seller = "b"))

\* C32: with a readable file, merge_csv writes one table that holds exactly
\* the rows of the readable files (as many rows as they have together),
\* sorted by product_id, then by seller for a seller table; when a sort
\* column is in none of them it raises and writes no file.
C32_MergedAndSorted ==
  (merge.pc = "returned" /\ SomeReadable) =>
    IF SortColsPresent
    THEN /\ merge.written /\ ~merge.raised
         /\ Len(merge.out) = Cardinality(ReadableRows)
         /\ { <<merge.out[i].file, merge.out[i].n>> : i \in DOMAIN merge.out } = ReadableRows
         /\ \A i \in DOMAIN merge.out :
              LET f == merge.files[merge.out[i].file].rows[merge.out[i].n]
              IN /\ merge.out[i].seller = f.seller
                 /\ merge.out[i].product_id = f.product_id
         /\ \A i \in 1..(Len(merge.out) - 1) : InOrder(merge.out[i], merge.out[i + 1])
    ELSE merge.raised /\ ~merge.written /\ merge.out = <<>>

C32_Witness ==
  /\ merge.pc = "returned"
  /\ merge.table = "sellers"
  /\ Len(merge.files) = 2
  /\ ~merge.files[1].readable
  /\ Len(merge.out) = 2
  /\ merge.out[1].n = 2
  /\ merge.out[2].n = 1

\* C33: a product URL gets at most one extraction attempt in a run: an
\* invocation with a URL process_product was invoked with before makes no
\* fetch, runs no strategy and writes nothing, whatever came of the first
\* attempt; an invocation with a new URL starts with the JSON endpoint.
C33_OneAttemptPerUrl ==
  [][pc = "extract" =>
       IF call'.url \in invoked
       THEN /\ call'.skipped
            /\ call'.requests = <<>>
            /\ call'.strategies = <<>>
            /\ csv' = csv
            /\ seen' = seen
       ELSE /\ ~call'.skipped
            /\ Len(call'.requests) \in {1, 2}
            /\ call'.requests[1] = "json"
            /\ call'.url \in seen']_vars

C33_Witness ==
  /\ pc = "extract"
  /\ call.skipped
  /\ call.url \in seen
  /\ RowsOfUrl(call.url) = <<>>
  /\ Cardinality(invoked) = 2

C34_Safe ==
  get.session = "smart" =>
    LET n == Len(get.reqs)
    IN /\ n <= 2 * get.retries
       /\ get.attempt <= get.retries
       /\ \A i \in 1..n : get.reqs[i].by = "escalated" => (i > 1 /\ get.reqs[i - 1].by = "primary")
       /\ \A i \in 1..(n - 1) : get.reqs[i].by = "primary" => get.reqs[i + 1].by = "escalated"
       /\ get.waits = get.attempt
       /\ get.attempt >= 1 => get.lastWait = (2 ^ (get.attempt - 1)) * JitterSteps
       /\ (get.pc = "done" /\ get.result = "None") =>
            /\ n = 2 * get.retries
            /\ get.waits = get.retries
            /\ \A i \in 1..n : get.reqs[i].by = (IF i % 2 = 1 THEN "primary" ELSE "escalated")

\* C34: SmartSession.get(url, retries = n) terminates and makes at most 2n
\* requests, one plain and at most one cloudscraper request per attempt;
\* attempt a (from 0) is followed by one sleep of 2^a seconds when both
\* requests fail, the last attempt too, so a call that returns None has made
\* 2n requests and n sleeps of 2^0, ..., 2^(n-1) seconds.
C34_SmartGetTerminates == [](C34_Safe) /\ <>(get.session = "smart" => get.pc = "done")

C34_Witness ==
  /\ get.session = "smart"
  /\ get.pc = "done"
  /\ get.result = "None"
  /\ get.retries = 3
  /\ Len(get.reqs) = 6
  /\ get.waits = 3
  /\ get.lastWait = 4 * JitterSteps

\* The calls so far that found a product.
Successes == Len(SelectSeq(scrape.log, LAMBDA a : a = "product"))

\* C35: the product_id values of the rows returned so far are 1, 2, ..., k in
\* call order, k the number of calls that found a product; the counter is
\* k + 1; a call that is skipped (403, other status, exception) returned the
\* empty list.
C35_CounterCountsSuccesses ==
  /\ Len(scrape.rows) = Successes
  /\ \A i \in DOMAIN scrape.rows :
       scrape.rows[i].product_id = i /\ scrape.rows[i].main_product_id = i
  /\ scrape.global_product_id = Successes + 1
  /\ scrape.log # <<>> =>
       IF scrape.log[Len(scrape.log)] = "product"
       THEN Len(scrape.returned) = 1 /\ scrape.returned[1].product_id = Successes
       ELSE scrape.returned = <<>>

C35_Witness ==
  /\ scrape.log = <<"product", "403", "no_name", "product">>
  /\ Len(scrape.rows) = 2
  /\ scrape.rows[2].product_id = 2
  /\ scrape.global_product_id = 3

\* The rows a chunk takes.
RowsOf(r) == {i \in 0..(chunk.n - 1) : r.start_idx <= i /\ i < r.end_idx}

\* C36: the ranges [start_idx, end_idx) of the chunk ids 1..total_chunks are
\* pairwise disjoint, and once every chunk id has run they cover every row
\* 0..n-1, for every n >= 1 and total_chunks >= 1.
C36_ChunksPartitionRows ==
  /\ \A r \in chunk.ranges :
       0 <= r.start_idx /\ r.start_idx <= r.end_idx /\ r.end_idx <= chunk.n
  /\ \A r1, r2 \in chunk.ranges :
       r1.chunk_id # r2.chunk_id => RowsOf(r1) \cap RowsOf(r2) = {}
  /\ Cardinality(chunk.ranges) = chunk.total_chunks =>
       UNION {RowsOf(r) : r \in chunk.ranges} = 0..(chunk.n - 1)

\* Five rows in three chunks: 1, 1 and 3 rows.
C36_Witness ==
  /\ chunk.n = 5
  /\ chunk.total_chunks = 3
  /\ Cardinality(chunk.ranges) = 3
  /\ \E r \in chunk.ranges :
       r.chunk_id = 3 /\ r.start_idx = 2 /\ r.end_idx = 5

\* C37: after the pool has finished, the four counters of stats add up to
\* the number of variant IDs submitted, and each call has incremented
\* exactly one counter.
C37_StatsAddUp ==
  pool.pc = "finished" =>
    /\ pool.stats.processed + pool.stats.errors + pool.stats.skipped
          + pool.stats.invalid = Len(pool.calls)
    /\ \A i \in DOMAIN pool.calls : pool.calls[i].incs = 1

\* The same with one worker thread and a delay that is not negative: no two
\* increments overlap and no call reaches the exception handler after its
\* increment.
C37_OneWorkerAddsUp ==
  (pool.pc = "finished" /\ pool.max_workers = 1
     /\ pool.request_delay = "nonneg") =>
    /\ pool.stats.processed + pool.stats.errors + pool.stats.skipped
          + pool.stats.invalid = Len(pool.calls)
    /\ \A i \in DOMAIN pool.calls : pool.calls[i].incs = 1

\* With two worker threads and a delay that is not negative, two calls were
\* counted once.
C37_LostUpdate ==
  /\ pool.pc = "finished"
  /\ pool.max_workers = 2
  /\ pool.request_delay = "nonneg"
  /\ Len(pool.calls) = 2
  /\ pool.stats.processed + pool.stats.errors = 1

\* The answers http_get retries.
C38_Retried == {"429", "500", "403", "timeout", "exception"}

\* C38: http_get makes at most 3 requests; every answer but the last was
\* one it retries; it has returned the body exactly when the last answer was
\* a 200 and None exactly when the last answer was a 404 or the third
\* attempt failed; otherwise it goes on.
C38_AtMostThreeRequests ==
  LET n == Len(http.log)
  IN /\ n <= 3
     /\ \A i \in 1..(n - 1) : http.log[i] \in C38_Retried
     /\ n > 0 =>
          /\ http.log[n] = "200" => http.pc = "done" /\ http.result = "body"
          /\ http.log[n] = "404" => http.pc = "done" /\ http.result = "None"
          /\ (http.log[n] \in C38_Retried /\ n = 3) =>
               http.pc = "done" /\ http.result = "None"
          /\ (http.log[n] \in C38_Retried /\ n < 3) =>
               http.pc = "loop" /\ http.result = "none"
     /\ n = 0 => http.pc \in {"idle", "loop"}

\* A 429 and a timeout are retried, then a 404 ends the call.
C38_Witness ==
  /\ http.log = <<"429", "timeout", "404">>
  /\ http.pc = "done"
  /\ http.result = "None"
  /\ http.slept = 7

C39_Submitted ==
  /\ captcha.pc = "returned"
  /\ captcha.result = "solved"
  /\ captcha.events = <<"checkbox", "audio_button", "download", "submit">>
====
